---- MODULE Spec2Model ----
(***************************************************************************)
(* State-machine model of the recache record cache: the cache registry,    *)
(* the per-cache buckets / LRU list / memory accounting, the one-shot      *)
(* semaphore of a record, Frontend.getGeneratedRecord with its populate    *)
(* path, RecordWriter (Write / Include / Bind / flush) and immediate       *)
(* eviction with its cascade.                                              *)
(*                                                                         *)
(* Every section of code that runs under one cache mutex (Cache.getRecord, *)
(* Cache.setUsedMemory, registerInclusion, Cache.evict, Cache.EvictAll,    *)
(* Frontend.EvictAll) is one atomic action, so every state of the model is *)
(* a state in which every cache mutex is free.                             *)
(***************************************************************************)
EXTENDS Integers, Sequences, FiniteSets, TLC

\* ------------------------------------------------------------------ bounds
\* Calls of Frontend.Get by the users of the caches
MaxGets == 2
\* Record instances of one location that can be reachable at the same time
MaxInstances == 2
\* Latest reading of the clock
MaxTime == 2
\* Requests the channel evictAfter holds before a send blocks
MaxQueue == 2
\* Components of the record whose descriptors are folded
MaxFrames == 2
\* Times the length of a frame passes 2^32
MaxWraps == 1
\* Bytes of the length of a frame beyond the multiple of 2^32
MaxLow == 2
\* Frames a generator writes into a record and the records it includes
MaxLeaves == 3
\* Levels of includes in a record
MaxDepth == 2
\* Calls of WriteHTTP in a behaviour
MaxRequests == 3

\* ------------------------------------------------------- program constants
\* Go's nil pointer
Nil == 0
\* for i := 0; i < 2; i++ in Cache.getRecord
EvictionAttempts == 2
\* existing, ok := pending[req.loc] with ok = false: no entry in the map
NoDeadline == -1

\* The goroutines that call Frontend.Get
Tasks == {1, 2}
Times == {0, MaxTime}

\* error values (nil is NoError)
NoError == "nil"
ErrSample == "sample generation error"
ErrEmptyRecord == "empty record created"

\* fatal errors of the runtime
NoFatal == "none"
PanicEvictedRecord == "linked list points to evicted record"
FatalUnlock == "sync: unlock of unlocked mutex"

\* ---------------------------------------------------------------- locations
\* intercacheRecordLocation{cache, recordLocation{frontend, key}}
LocA == [cache |-> 0, frontend |-> 0, key |-> 0]
LocB == [cache |-> 0, frontend |-> 1, key |-> 0]
LocC == [cache |-> 1, frontend |-> 0, key |-> 0]
LocD == [cache |-> 1, frontend |-> 0, key |-> 1]
Locs == {LocA, LocB, LocC, LocD}

CacheIds == {l.cache : l \in Locs}

\* recordLocation{frontend, key} of an intercacheRecordLocation
RLoc(l) == [frontend |-> l.frontend, key |-> l.key]

\* intercacheRecordLocation of a recordLocation in cache id
Inter(id, loc) == [cache |-> id, frontend |-> loc.frontend, key |-> loc.key]

RLocs == {RLoc(l) : l \in Locs}

\* ---------------------------------------------------------------- the Getter
\* The generator of each location, in the shape of the getter of the
\* recursion tests: raw writes with Include / Bind calls between them. The
\* generator of LocD binds a record and writes nothing.
OpWrite(b) == [kind |-> "write", byte |-> b, loc |-> LocA]
OpInclude(l) == [kind |-> "include", byte |-> 0, loc |-> l]
OpBind(l) == [kind |-> "bind", byte |-> 0, loc |-> l]

Recursion ==
    [l \in Locs |->
        IF l = LocA THEN << OpWrite(1), OpWrite(2) >>
        ELSE IF l = LocB THEN << OpWrite(3), OpInclude(LocA), OpWrite(4) >>
        ELSE IF l = LocC THEN << OpWrite(5), OpBind(LocA), OpWrite(6) >>
        ELSE << OpBind(LocA) >>]

\* Frontend.getter: the generator each frontend was created with
VARIABLE getters
Getter(l) == getters[l]

\* Locations whose generator may return errSample instead of writing
MayFail(l) == l = LocA

\* The keys a goroutine asks for
Calls(t) == IF t = 1 THEN {LocA, LocB, LocD} ELSE {LocA, LocC, LocD}

\* ------------------------------------------------------------- linked list
\* linkedList{front, back *node}; node{next, previous *node; location}.
\* Nodes live in a per-list heap indexed by address.
NodeIds == 1 .. Cardinality(RLocs)
NoNode == [next |-> Nil, previous |-> Nil, location |-> [frontend |-> -1, key |-> -1]]
EmptyList == [front |-> Nil, back |-> Nil, nodes |-> [n \in NodeIds |-> NoNode]]

\* Address of a newly allocated node: the lowest one not in use
NewNode(ll) ==
    CHOOSE n \in NodeIds :
        /\ ll.nodes[n] = NoNode
        /\ \A m \in NodeIds : ll.nodes[m] = NoNode => n <= m

Prepend(ll, loc) ==
    LET n == NewNode(ll)
        made == [next |-> Nil, previous |-> Nil, location |-> loc]
    IN IF ll.front = Nil
       THEN [list |-> [front |-> n, back |-> n,
                       nodes |-> [ll.nodes EXCEPT ![n] = made]],
             node |-> n]
       ELSE [list |-> [front |-> n, back |-> ll.back,
                       nodes |-> [ll.nodes EXCEPT
                                    ![ll.front].previous = n,
                                    ![n] = [made EXCEPT !.next = ll.front]]],
             node |-> n]

Last(ll) ==
    IF ll.back = Nil
    THEN [loc |-> [frontend |-> 0, key |-> 0], ok |-> FALSE]
    ELSE [loc |-> ll.nodes[ll.back].location, ok |-> TRUE]

\* Seeded fault: MoveToFront leaves the node where it is
MoveToFront_Mutant(ll, n) == ll

MoveToFront(ll, n) ==
    IF ll.front = n THEN ll
    ELSE
      LET nd == ll.nodes[n]
          \* join neighbouring nodes
          l1 == IF nd.previous # Nil
                THEN [ll EXCEPT !.nodes[nd.previous].next = nd.next,
                                !.back = IF n = ll.back THEN nd.previous ELSE @]
                ELSE ll
          l2 == IF nd.next # Nil
                THEN [l1 EXCEPT !.nodes[nd.next].previous = nd.previous]
                ELSE l1
          \* insert to front
          l3 == [l2 EXCEPT !.nodes[n].previous = Nil]
          l4 == IF l3.front # Nil
                THEN [l3 EXCEPT !.nodes[l3.front].previous = n]
                ELSE l3
      IN [l4 EXCEPT !.nodes[n].next = l4.front, !.front = n]

\* Seeded fault: Remove leaves the node linked
Remove_Mutant(ll, n) == ll

\* Remove unlinks n; the node is unreachable afterwards and its address is
\* given back to the heap.
Remove(ll, n) ==
    LET nd == ll.nodes[n]
        l1 == [ll EXCEPT !.front = IF n = ll.front THEN nd.next ELSE @,
                         !.back = IF n = ll.back THEN nd.previous ELSE @]
        l2 == IF nd.previous # Nil
              THEN [l1 EXCEPT !.nodes[nd.previous].next = nd.next]
              ELSE l1
        l3 == IF nd.next # Nil
              THEN [l2 EXCEPT !.nodes[nd.next].previous = nd.previous]
              ELSE l2
    IN [l3 EXCEPT !.nodes[n] = NoNode]

\* The locations of the list, front to back
RECURSIVE Walk(_, _, _)
Walk(ll, n, fuel) ==
    IF n = Nil \/ fuel = 0 THEN << >>
    ELSE << n >> \o Walk(ll, ll.nodes[n].next, fuel - 1)

ListNodes(ll) == Walk(ll, ll.front, Cardinality(NodeIds) + 1)


\* -------------------------------------------------------------------- Cache
\* recordWithMeta{memoryUsed, lastUsed, node, includedIn, rec}
NoEntry == [memoryUsed |-> 0, lastUsed |-> 0, node |-> Nil,
            includedIn |-> << >>, rec |-> Nil]

\* NewCache followed by NewFrontend for every frontend: empty buckets
NewCache(id, memoryLimit, lruLimit) ==
    [id |-> id, memoryLimit |-> memoryLimit, memoryUsed |-> 0,
     lruLimit |-> lruLimit, lruList |-> EmptyList,
     buckets |-> [loc \in RLocs |-> NoEntry]]

\* rec, ok := c.buckets[loc.frontend][loc.key]
has(c, loc) == c.buckets[loc] # NoEntry
record(c, loc) == [rec |-> c.buckets[loc], ok |-> has(c, loc)]

\* Result of a call that evicts: the cache afterwards, the goroutines it
\* started (go evict(ch, 0)) and the requests it sent on evictAfter
Evicted(c, spawned, sent) == [cache |-> c, spawned |-> spawned, sent |-> sent]

RECURSIVE evictWithLock(_, _, _)
RECURSIVE cascade(_, _)

\* Seeded fault: the edges of an evicted record are not followed
cascade_Mutant(c, includedIn) == Evicted(c, {}, << >>)

\* for _, ch := range rec.includedIn { ... }
cascade(c, includedIn) ==
    IF includedIn = << >> THEN Evicted(c, {}, << >>)
    ELSE
      LET ch == Head(includedIn)
          one == IF ch.cache = c.id
                 THEN evictWithLock(c, RLoc(ch), 0)
                 ELSE Evicted(c, {ch}, << >>)
          rest == cascade(one.cache, Tail(includedIn))
      IN Evicted(rest.cache, one.spawned \cup rest.spawned,
                 one.sent \o rest.sent)

\* Seeded fault: the eviction keeps the memory of the record accounted
evictWithLock_Mutant(c, loc, t) ==
    LET r == record(c, loc) IN
    IF ~r.ok THEN Evicted(c, {}, << >>)
    ELSE Evicted([c EXCEPT !.buckets[loc] = NoEntry,
                           !.lruList = Remove(@, r.rec.node)], {}, << >>)

\* Evict record from cache after t. Requires lock on c.mu.
evictWithLock(c, loc, t) ==
    LET r == record(c, loc) IN
    IF ~r.ok THEN Evicted(c, {}, << >>)
    ELSE IF t # 0
    THEN Evicted(c, {}, << [loc |-> Inter(c.id, loc), timer |-> t] >>)
    ELSE cascade([c EXCEPT !.buckets[loc] = NoEntry,
                           !.lruList = Remove(@, r.rec.node),
                           !.memoryUsed = @ - r.rec.memoryUsed],
                 r.rec.includedIn)

\* Seeded fault: evict leaves the record in the cache
evict_Mutant(c, loc, t) == Evicted(c, {}, << >>)

\* Cache.evict: evictWithLock under c.mu
evict(c, loc, t) == evictWithLock(c, loc, t)

\* c.keys(frontend): the keys of a frontend, in the order the map yields them
RECURSIVE SeqOf(_)
SeqOf(S) ==
    IF S = {} THEN << >>
    ELSE LET x == CHOOSE y \in S : TRUE IN << x >> \o SeqOf(S \ {x})

\* Seeded fault: keys yields the keys of every frontend
keys_Mutant(c, frontend) == SeqOf({loc \in RLocs : has(c, loc)})

keys(c, frontend) ==
    SeqOf({loc \in RLocs : loc.frontend = frontend /\ has(c, loc)})

RECURSIVE evictKeys(_, _, _)
evictKeys(c, locs, t) ==
    IF locs = << >> THEN Evicted(c, {}, << >>)
    ELSE
      LET one == evictWithLock(c, Head(locs), t)
          rest == evictKeys(one.cache, Tail(locs), t)
      IN Evicted(rest.cache, one.spawned \cup rest.spawned,
                 one.sent \o rest.sent)

\* Evict all keys of specific frontend after t. Requires lock on c.mu.
evictFrontendWithLock(c, frontend, t) == evictKeys(c, keys(c, frontend), t)

RECURSIVE evictFrontends(_, _, _)
evictFrontends(c, frontends, t) ==
    IF frontends = << >> THEN Evicted(c, {}, << >>)
    ELSE
      LET one == evictFrontendWithLock(c, Head(frontends), t)
          rest == evictFrontends(one.cache, Tail(frontends), t)
      IN Evicted(rest.cache, one.spawned \cup rest.spawned,
                 one.sent \o rest.sent)

\* Seeded fault: EvictAll stops after the first frontend
EvictAll_Mutant(c, t) == evictFrontendWithLock(c, 0, t)

\* Cache.EvictAll: for i := range c.frontends
EvictAll(c, t) ==
    evictFrontends(c, SeqOf({loc.frontend : loc \in RLocs}), t)

\* Result of evictByFunc: an eviction and the error it returns
ByFunc(e, err) ==
    [cache |-> e.cache, spawned |-> e.spawned, sent |-> e.sent, err |-> err]

\* What a matcher function answers for a key: (evict, err)
Answer(match, err) == [evict |-> match, err |-> err]

RECURSIVE evictByFunc(_, _, _, _)

\* c.evictWithLock(recordLocation{frontend, k}, t) and the rest of the loop
evictAndMatch(e, rest) ==
    ByFunc(Evicted(rest.cache, e.spawned \cup rest.spawned,
                   e.sent \o rest.sent),
           rest.err)

\* Seeded fault: every key is evicted, the matcher is not asked
evictByFunc_Mutant(c, ks, t, fn) == ByFunc(evictKeys(c, ks, t), NoError)

\* Evict keys from frontend using matcher function fn after t. ks is
\* c.keys(frontend), in the order the map yielded the keys.
evictByFunc(c, ks, t, fn) ==
    IF ks = << >> THEN ByFunc(Evicted(c, {}, << >>), NoError)
    ELSE IF ~has(c, Head(ks)) THEN evictByFunc(c, Tail(ks), t, fn)
    ELSE IF fn[Head(ks).key].err # NoError
    THEN ByFunc(Evicted(c, {}, << >>), fn[Head(ks).key].err)
    ELSE IF fn[Head(ks).key].evict
    THEN evictAndMatch(evictWithLock(c, Head(ks), t),
                       evictByFunc(evictWithLock(c, Head(ks), t).cache,
                                   Tail(ks), t, fn))
    ELSE evictByFunc(c, Tail(ks), t, fn)

\* Result of the eviction loop of getRecord
Looped(c, spawned, fatal) == [cache |-> c, spawned |-> spawned, fatal |-> fatal]

\* Seeded fault: the loop evicts the last record of the list whatever the
\* limits are
evictLast_Mutant(c, now, i) ==
    IF i = 0 \/ ~Last(c.lruList).ok THEN Looped(c, {}, NoFatal)
    ELSE Looped(evictWithLock(c, Last(c.lruList).loc, 0).cache,
                evictWithLock(c, Last(c.lruList).loc, 0).spawned, NoFatal)

RECURSIVE evictLast(_, _, _)

\* c.evictWithLock(last); continue
evictAndContinue(e, now, i) ==
    LET rest == evictLast(e.cache, now, i)
    IN Looped(rest.cache, e.spawned \cup rest.spawned, rest.fatal)

\* Attempt to evict up to the last i records due to LRU or memory constraints
evictLast(c, now, i) ==
    IF i = 0 THEN Looped(c, {}, NoFatal)
    ELSE
      LET last == Last(c.lruList)
          lruRec == record(c, last.loc)
      IN
      IF ~last.ok THEN Looped(c, {}, NoFatal)
      ELSE IF c.memoryLimit # 0 /\ c.memoryUsed > c.memoryLimit
      THEN evictAndContinue(evictWithLock(c, last.loc, 0), now, i - 1)
      ELSE IF c.lruLimit # 0
      THEN IF ~lruRec.ok THEN Looped(c, {}, PanicEvictedRecord)
           ELSE IF lruRec.rec.lastUsed + c.lruLimit < now
           THEN evictAndContinue(evictWithLock(c, last.loc, 0), now, i - 1)
           ELSE Looped(c, {}, NoFatal)
      ELSE Looped(c, {}, NoFatal)

\* recWithMeta = recordWithMeta{node: c.lruList.Prepend(loc), rec: new(record)}
inserted(made, new) ==
    [list |-> made.list, ok |-> FALSE,
     recWithMeta |-> [NoEntry EXCEPT !.node = made.node, !.rec = new]]

\* Seeded fault: the lookup never finds the entry
lookup_Mutant(c, loc, new) == inserted(Prepend(c.lruList, loc), new)

\* recWithMeta, ok := c.record(loc), and the LRU list after Prepend (!ok) or
\* MoveToFront (ok)
lookup(c, loc, new) ==
    LET r == record(c, loc) IN
    IF ~r.ok THEN inserted(Prepend(c.lruList, loc), new)
    ELSE [list |-> MoveToFront(c.lruList, r.rec.node), ok |-> TRUE,
          recWithMeta |-> r.rec]

\* Seeded fault: every caller is told its record is fresh
returned_Mutant(looped, found) ==
    [cache |-> looped.cache, spawned |-> looped.spawned,
     fatal |-> looped.fatal, rec |-> found.recWithMeta.rec, fresh |-> TRUE]

\* return recWithMeta.rec, !ok
returned(looped, found) ==
    [cache |-> looped.cache, spawned |-> looped.spawned,
     fatal |-> looped.fatal, rec |-> found.recWithMeta.rec, fresh |-> ~found.ok]

\* Seeded fault: the entry is stored without the time of its use
stamped_Mutant(c, loc, found, now) ==
    returned(
        evictLast([c EXCEPT !.lruList = found.list,
                            !.buckets[loc] = found.recWithMeta],
                  now, EvictionAttempts),
        found)

\* recWithMeta.lastUsed = now; c.buckets[loc.frontend][loc.key] = recWithMeta
\* and the eviction loop
stamped(c, loc, found, now) ==
    returned(
        evictLast([c EXCEPT !.lruList = found.list,
                            !.buckets[loc] =
                                [found.recWithMeta EXCEPT !.lastUsed = now]],
                  now, EvictionAttempts),
        found)

\* Get or create a new record in the cache. new is the address new(record)
\* yields, now the reading of time.Now().
\* fresh=true, if record is freshly created and requires population.
getRecord(c, loc, new, now) == stamped(c, loc, lookup(c, loc, new), now)

\* Seeded fault: setUsedMemory does not compare the record with src
setUsedMemory_Mutant(c, src, loc, memoryUsed) ==
    LET r == record(c, loc) IN
    IF ~r.ok THEN c
    ELSE [c EXCEPT !.buckets[loc].memoryUsed = memoryUsed,
                   !.memoryUsed = @ + memoryUsed]

\* Set record used memory
\* Seeded fault: setUsedMemory sets the entry's memoryUsed and leaves the
\* total of the cache alone
setUsedMemoryEntry_Mutant(c, src, loc, memoryUsed) ==
    LET r == record(c, loc) IN
    IF ~r.ok \/ r.rec.rec # src THEN c
    ELSE [c EXCEPT !.buckets[loc].memoryUsed = memoryUsed]

setUsedMemory(c, src, loc, memoryUsed) ==
    LET r == record(c, loc) IN
    IF ~r.ok \/ r.rec.rec # src THEN c
    ELSE [c EXCEPT !.buckets[loc].memoryUsed = memoryUsed,
                   !.memoryUsed = @ + memoryUsed]

\* Seeded fault: the entry with the parent appended is stored in the bucket
registerInclusion_Mutant(c, parent, child) ==
    LET r == record(c, child) IN
    IF ~r.ok THEN c
    ELSE [c EXCEPT !.buckets[child].includedIn = Append(@, parent)]

\* Register a record as being used in another record. rec is a copy of the
\* bucket entry (c.record returns recordWithMeta by value); the append
\* changes the copy and the entry in c.buckets is not assigned.
registerInclusion(c, parent, child) ==
    LET r == record(c, child) IN
    IF ~r.ok THEN c
    ELSE LET rec == [r.rec EXCEPT !.includedIn = Append(@, parent)]
         IN c


\* ------------------------------------------------------------------- Record
\* End of a deflate stream: compressor.Close() ends the frame in progress
EndOfFrame == 0

\* The deflate frame of the raw bytes p (flate.Writer fed p, then closed)
Deflate(p) == p \o << EndOfFrame >>

\* frameDescriptor{checksum, size}: Adler32 checksum and uncompressed size.
\* The uint32 checksum is kept as its two 16 bit halves, checksum & 0xffff
\* and checksum >> 16.
AdlerBase == 65521
Halves(low, high) == [low |-> low, high |-> high]
Descriptor(checksum, size) == [checksum |-> checksum, size |-> size]
ZeroDescriptor == Descriptor(Halves(0, 0), 0)

\* adler32.Checksum: the sums a (low half) and b (high half) over the bytes p
RECURSIVE AdlerSums(_, _, _)
AdlerSums(p, a, b) ==
    IF p = << >> THEN Halves(a, b)
    ELSE AdlerSums(Tail(p), (a + Head(p)) % AdlerBase,
                   (b + ((a + Head(p)) % AdlerBase)) % AdlerBase)
Adler32(p) == AdlerSums(p, 1, 0)

\* The conditional subtractions at the end of frameDescriptor.Append, and
\* sum1 | (sum2 << 16)
Reduced(sum1, sum2) ==
    LET s1 == IF sum1 >= AdlerBase THEN sum1 - AdlerBase ELSE sum1
        s2 == IF sum2 >= 2 * AdlerBase THEN sum2 - 2 * AdlerBase ELSE sum2
    IN Halves(IF s1 >= AdlerBase THEN s1 - AdlerBase ELSE s1,
              IF s2 >= AdlerBase THEN s2 - AdlerBase ELSE s2)

\* Appending another frameDescriptor onto f. A size is the length modulo
\* 2^32; the sizes kept here are small, so that f.size += rhs.size itself
\* does not wrap.
AppendDescriptor(f, rhs) ==
    LET rem == rhs.size % AdlerBase
    IN Descriptor(
         Reduced(f.checksum.low + rhs.checksum.low + AdlerBase - 1,
                 ((rem * f.checksum.low) % AdlerBase)
                     + f.checksum.high + rhs.checksum.high + AdlerBase - rem),
         f.size + rhs.size)

\* sha1.Sum of the bytes p: a digest that stands for p alone
Sha1(p) == << -1 >> \o p \o << -2 >>

\* The strong ETag of a hash: its base64 form between quotes
ETag(hash) == << -3 >> \o hash \o << -3 >>

\* component: buffer{hash, frameDescriptor, data} or
\* recordReference{hash, *Record}
Buffer(data, desc) ==
    [kind |-> "buffer", data |-> data, record |-> Nil, hash |-> Sha1(data),
     frameDescriptor |-> desc]
Reference(rec, hash) ==
    [kind |-> "reference", data |-> << >>, record |-> rec, hash |-> hash,
     frameDescriptor |-> ZeroDescriptor]

\* buffer.GetFrameDescriptor / recordReference.GetFrameDescriptor
GetFrameDescriptor(recs, c) ==
    IF c.kind = "buffer" THEN c.frameDescriptor
    ELSE recs[c.record].frameDescriptor

\* buffer.Size / recordReference.Size
Size(c) == IF c.kind = "buffer" THEN Len(c.data) ELSE 0

\* The addresses of the heap of records. The allocator serves the records of
\* location l from the addresses Pool(l).
LocIndex(l) == l.cache * 2 + l.frontend + l.key
RecIds == 1 .. (Cardinality(Locs) * MaxInstances)
Pool(l) == {LocIndex(l) * MaxInstances + k : k \in 1 .. MaxInstances}

\* new(record): semaphore{finished, mu}, data, populationError
ZeroRecord == [finished |-> 0, locked |-> FALSE, data |-> << >>,
               frameDescriptor |-> ZeroDescriptor, hash |-> << >>,
               eTag |-> << >>, populationError |-> NoError]

\* Seeded fault: Init leaves the gate open
SemInit_Mutant(r) == [r EXCEPT !.finished = 1]

\* semaphore.Init
SemInit(r) == [r EXCEPT !.locked = TRUE]

\* Seeded fault: Unblock leaves the gate closed
SemUnblock_Mutant(r) == r

\* semaphore.Unblock
SemUnblock(r) == [r EXCEPT !.finished = 1, !.locked = FALSE]

\* Seeded fault: Wait never blocks
SemWaitReturns_Mutant(r) == TRUE

\* semaphore.Wait returns (does not block)
SemWaitReturns(r) == r.finished = 1 \/ ~r.locked

\* Record.WriteTo: the bytes of every component in order, a reference
\* writing the whole referenced record
RECURSIVE WriteTo(_, _)
RECURSIVE WriteComponents(_, _)
WriteComponents(recs, data) ==
    IF data = << >> THEN << >>
    ELSE LET c == Head(data)
         IN (IF c.kind = "buffer" THEN c.data ELSE WriteTo(recs, c.record))
            \o WriteComponents(recs, Tail(data))
WriteTo(recs, r) == WriteComponents(recs, recs[r].data)

\* ------------------------------------------------------------- RecordWriter
\* RecordWriter{compressing, current, data}
NewWriter == [compressing |-> FALSE, current |-> << >>, data |-> << >>]

\* RecordWriter.append
append(rw, c) == [rw EXCEPT !.data = Append(@, c)]

\* RecordWriter.Write of the bytes p
Write(rw, p) ==
    [rw EXCEPT !.current = (IF rw.compressing THEN @ ELSE << >>) \o p,
               !.compressing = TRUE]

\* The buffer of the frame in progress: the compressed bytes, the size and
\* the checksum of the raw bytes
Flushed(rw) ==
    Buffer(Deflate(rw.current), Descriptor(Adler32(rw.current), Len(rw.current)))

\* Seeded fault: only the final flush ends the frame in progress
flush_Mutant(rw, final) ==
    IF rw.compressing /\ final
    THEN [append(rw, Flushed(rw)) EXCEPT !.compressing = FALSE]
    ELSE rw

\* RecordWriter.flush
flush(rw, final) ==
    IF rw.compressing
    THEN [append(rw, Flushed(rw)) EXCEPT !.compressing = FALSE]
    ELSE rw

\* memoryUsed += c.Size() over the components of a populated record
RECURSIVE MemoryOf(_)
MemoryOf(data) ==
    IF data = << >> THEN 0 ELSE Size(Head(data)) + MemoryOf(Tail(data))

\* rec.frameDescriptor.Append(c.GetFrameDescriptor()) over the components
\* after the first
RECURSIVE FoldDescriptors(_, _, _)
FoldDescriptors(recs, desc, data) ==
    IF data = << >> THEN desc
    ELSE FoldDescriptors(recs,
                         AppendDescriptor(desc, GetFrameDescriptor(recs, Head(data))),
                         Tail(data))

\* h.Write(arr[:]) over the hashes of the components
RECURSIVE HashInput(_)
HashInput(data) ==
    IF data = << >> THEN << >> ELSE Head(data).hash \o HashInput(Tail(data))

\* Seeded fault: the hash of the only component is hashed again
HashOf_Mutant(data) == Sha1(HashInput(data))

\* The hash of a record of components data: that of its only component, or
\* the SHA1 of the hashes of its components
HashOf(data) ==
    IF Len(data) = 1 THEN data[1].hash ELSE Sha1(HashInput(data))

\* Frontend.populate writes the components, the aggregate frame descriptor,
\* the hash and the ETag of rec
Populated(recs, rec, data) ==
    [recs[rec] EXCEPT
        !.data = data,
        !.frameDescriptor =
            FoldDescriptors(recs, GetFrameDescriptor(recs, Head(data)), Tail(data)),
        !.hash = HashOf(data),
        !.eTag = ETag(HashOf(data))]

\* -------------------------------------------------------------------- state
VARIABLES
    caches,      \* the registry: cache id -> Cache
    records,     \* the heap of records: address -> record
    tasks,       \* per goroutine: the stack of getGeneratedRecord calls and
                 \* what its last Frontend.Get returned
    now,         \* the latest reading of time.Now()
    spawned,     \* evictions started with go evict(ch, 0) that have not run
    evictAfter,  \* the channel of scheduled evictions
    pending,     \* the scheduler's map: location -> deadline
    scanning,    \* the locations the scan in progress has yet to dispatch
    fatal,       \* the panic or fatal error that ended the process, if any
    gets,        \* calls of Frontend.Get so far
    matcherErr,  \* the error the latest call of EvictByFunc returned
    frames,      \* a frame descriptor, the descriptor appended onto it and
                 \* the streams they describe
    grouping,    \* the frames two generators wrote, one of them through
                 \* included records
    http,        \* per goroutine: the request of its call of WriteHTTP and
                 \* what the call wrote to the http.ResponseWriter
    locks,       \* the mutexes and the channel as the goroutines of the
                 \* locking discipline hold and fill them
    lru,         \* a linkedList on its own and the order its nodes were
                 \* last prepended or moved in
    cascaded,    \* history: the cache the latest immediate eviction on its
                 \* own started from and the location it was called for
    opens,       \* history: calls of Unblock on each record instance
    received     \* history: the deadlines of the requests the scheduler
                 \* received for each location since its last dispatch

vars == << caches, records, tasks, now, spawned, evictAfter, pending,
           scanning, fatal, gets, matcherErr, frames, grouping, http,
           getters, locks, lru, cascaded, opens, received >>

\* The state of the scheduler goroutine
scheduler == << pending, scanning, received >>

\* A call of getGeneratedRecord in progress
Frame(l, rec, fresh) ==
    [loc |-> l, rec |-> rec, fresh |-> fresh, pc |-> "wait",
     ip |-> 1, rw |-> NewWriter, err |-> NoError, child |-> Nil]

NoResult == [loc |-> LocA, rec |-> Nil, err |-> NoError, stream |-> << >>]
IdleTask == [stack |-> << >>, result |-> NoResult]

\* The call on top of the stack of task t, and the calls below it
Top(t) == tasks[t].stack[Len(tasks[t].stack)]
Below(t) == SubSeq(tasks[t].stack, 1, Len(tasks[t].stack) - 1)
Running(t) == tasks[t].stack # << >>
Op(f) == Getter(f.loc)[f.ip]

\* The generator of f runs on from call ip: its writes go to f.rw, until it
\* calls Include or Bind (pc "generate") or returns nil (pc "populate")
RECURSIVE Generate(_)
Generate(f) ==
    IF f.ip > Len(Getter(f.loc)) THEN [f EXCEPT !.pc = "populate"]
    ELSE IF Op(f).kind = "write"
    THEN Generate([f EXCEPT !.rw = Write(f.rw, << Op(f).byte >>), !.ip = @ + 1])
    ELSE [f EXCEPT !.pc = "generate"]

\* The generator of f returns errSample at once
GenerateError(f) == [f EXCEPT !.err = ErrSample, !.pc = "failed"]

\* ----------------------------------------------------- the heap of records
RefsOf(data) ==
    {data[i].record : i \in {j \in DOMAIN data : data[j].kind = "reference"}}

FrameRefs(f) == {f.rec, f.child} \cup RefsOf(f.rw.data)

Roots(cs, ts) ==
    {cs[c].buckets[loc].rec : c \in CacheIds, loc \in RLocs}
    \cup UNION {UNION {FrameRefs(ts[t].stack[i]) : i \in DOMAIN ts[t].stack} :
                t \in Tasks}
    \cup {ts[t].result.rec : t \in Tasks}

\* The records reachable from S through reference components
RECURSIVE Reachable(_, _)
Reachable(recs, S) ==
    LET T == (S \cup UNION {RefsOf(recs[r].data) : r \in S \ {Nil}}) \ {Nil}
    IN IF T = S THEN S ELSE Reachable(recs, T)

Live(cs, recs, ts) == Reachable(recs, Roots(cs, ts) \ {Nil})

\* The lowest address of free (Nil when no address is free)
Lowest(free) ==
    IF free = {} THEN Nil ELSE CHOOSE r \in free : \A q \in free : r <= q

\* Seeded fault: new(record) yields an address that may still be in use
NewRecord_Mutant(l) == Lowest(Pool(l))

\* Address of a newly allocated record of location l: the lowest one of its
\* pool that is not reachable (Nil when the pool is used up)
NewRecord(l) == Lowest(Pool(l) \ Live(caches, records, tasks))

\* Records that are not in live are garbage
Collect(cs, recs, ts, ops, live) ==
    /\ caches' = cs
    /\ tasks' = ts
    /\ records' = [r \in RecIds |-> IF r \in live THEN recs[r] ELSE ZeroRecord]
    /\ opens' = [r \in RecIds |-> IF r \in live THEN ops[r] ELSE 0]

\* The next state of caches, records and tasks; records that are no longer
\* reachable are garbage and their addresses go back to the heap.
Commit(cs, recs, ts, ops) ==
    \E c \in {cs}, r \in {recs}, k \in {ts}, o \in {ops} :
        \E live \in {Live(c, r, k)} : Collect(c, r, k, o, live)

\* ------------------------------------------------------------ long streams
\* A stream that is too long to be kept byte by byte is kept as runs: a run
\* is length bytes of value byte, and its length is wraps * 2^32 + low.
Run(byte, wraps, low) == [byte |-> byte, wraps |-> wraps, low |-> low]

\* 2^16, and 2^32 modulo the base of Adler-32
Word == 65536
Wrap32 == ((Word % AdlerBase) * (Word % AdlerBase)) % AdlerBase

\* x * y modulo the base, for x and y below the base
MulMod(x, y) ==
    (((x * (y \div 256)) % AdlerBase) * 256 + x * (y % 256)) % AdlerBase

\* The length of a run modulo the base, and length * (length + 1) / 2
\* modulo the base (the base is odd: halving is multiplying by (base + 1) / 2)
LengthMod(run) == (run.wraps * Wrap32 + run.low) % AdlerBase
Triangle(run) ==
    MulMod(MulMod(LengthMod(run), (LengthMod(run) + 1) % AdlerBase),
           (AdlerBase + 1) \div 2)

\* hash/adler32 fed the runs of a stream: after n bytes of value v the sums
\* are a + n * v and b + n * a + v * n * (n + 1) / 2
RECURSIVE AdlerRuns(_, _, _)
AdlerRuns(stream, a, b) ==
    IF stream = << >> THEN Halves(a, b)
    ELSE AdlerRuns(Tail(stream),
                   (a + MulMod(LengthMod(Head(stream)), Head(stream).byte))
                       % AdlerBase,
                   (b + MulMod(LengthMod(Head(stream)), a)
                      + MulMod(Head(stream).byte, Triangle(Head(stream))))
                       % AdlerBase)

\* rw.hasher.Sum32() after the stream was written
Sum32(stream) == AdlerRuns(stream, 1, 0)

\* rw.current.size after the stream was written: size += uint32(n) keeps
\* the length modulo 2^32, which drops the wraps
RECURSIVE Size32(_)
Size32(stream) ==
    IF stream = << >> THEN 0 ELSE Head(stream).low + Size32(Tail(stream))

\* The frame descriptor flush gives to the frame of a stream
FrameOf(stream) == Descriptor(Sum32(stream), Size32(stream))

\* The bytes of a stream whose runs are shorter than 2^32
RECURSIVE BytesOf(_)
BytesOf(stream) ==
    IF stream = << >> THEN << >>
    ELSE [i \in 1 .. Head(stream).low |-> Head(stream).byte]
             \o BytesOf(Tail(stream))

\* No descriptor is being folded
NoFrames == [f |-> ZeroDescriptor, rhs |-> ZeroDescriptor, folded |-> << >>,
             frame |-> << >>, count |-> 0, pc |-> "idle"]

\* ------------------------------------------------------- grouped records
\* What a generator puts into a record, as a tree: a frame of raw bytes, or
\* the include of a record with components of its own
Leaf(p) == [kind |-> "frame", bytes |-> p, sub |-> << >>]
Included(sub) == [kind |-> "include", bytes |-> << >>, sub |-> sub]

RECURSIVE ComponentsOf(_)

\* The hash and the ETag Frontend.populate gives to the record of a tree
HashTree(tree) == HashOf(ComponentsOf(tree))
ETagTree(tree) == ETag(HashTree(tree))

\* The component the writer appends for an item: the buffer of the flushed
\* frame, or the reference Include makes with the hash of the included record
ComponentOf(item) ==
    IF item.kind = "frame"
    THEN Flushed(Write(NewWriter, item.bytes))
    ELSE Reference(Nil, HashTree(item.sub))

ComponentsOf(tree) ==
    IF tree = << >> THEN << >>
    ELSE << ComponentOf(Head(tree)) >> \o ComponentsOf(Tail(tree))

\* The frames of a tree, includes expanded, in order
RECURSIVE LeavesOf(_)
LeavesOf(tree) ==
    IF tree = << >> THEN << >>
    ELSE (IF Head(tree).kind = "frame" THEN << Head(tree).bytes >>
          ELSE LeavesOf(Head(tree).sub)) \o LeavesOf(Tail(tree))

\* The record whose generator writes the frames ps, one by one
RECURSIVE FlatTree(_)
FlatTree(ps) ==
    IF ps = << >> THEN << >> ELSE << Leaf(Head(ps)) >> \o FlatTree(Tail(ps))

\* How deep the includes of a tree nest
RECURSIVE DepthOf(_)
DepthOf(tree) ==
    IF tree = << >> THEN 0
    ELSE LET d == IF Head(tree).kind = "frame" THEN 0
                  ELSE 1 + DepthOf(Head(tree).sub)
             rest == DepthOf(Tail(tree))
         IN IF d > rest THEN d ELSE rest

\* The frames the generators write
LeafFrames == {<< 1 >>, << 2 >>}

\* No generator has written
NoGrouping == [tree |-> << >>]

\* ------------------------------------------------------------ HTTP adapter
\* Record.ETagDecompressed: r.eTag[:len(r.eTag)-1] + `-uc"`
ETagDecompressed(eTag) == SubSeq(eTag, 1, Len(eTag) - 1) \o << -4, -3 >>

\* flate.NewReader over r.NewReader(): the reader ends at the end of a
\* deflate stream, which compressor.Close() writes at the end of a frame
RECURSIVE Inflate(_)
Inflate(stream) ==
    IF stream = << >> \/ Head(stream) = EndOfFrame THEN << >>
    ELSE << Head(stream) >> \o Inflate(Tail(stream))
Decompress(recs, rec) == Inflate(WriteTo(recs, rec))

\* The compression level the package is configured with
CompressionLevel == -1
KnownLevels == -2 .. 9

\* The first two bits of byte 2 of the zlib header
LevelBits(level) ==
    IF level \in {-2, 0, 1} THEN 0
    ELSE IF level \in {2, 3, 4, 5} THEN 64
    ELSE IF level \in {6, -1} THEN 128
    ELSE 192

\* The zlib header: 0x78, then the level and the mod-31 checksum
ZlibHeader(level) ==
    << 120,
       (LevelBits(level)
            + (31 - ((120 * 256 + LevelBits(level)) % 31))) % 256 >>

\* The final empty deflate block and binary.BigEndian.PutUint32 of the
\* checksum
ZlibFooter(checksum) ==
    << 3, 0, checksum.high \div 256, checksum.high % 256,
       checksum.low \div 256, checksum.low % 256 >>

\* The headers of a request that WriteHTTP reads: Accept-Encoding as its
\* tokens, If-None-Match ("" when the header is absent)
Request(accept, match) == [acceptEncoding |-> accept, ifNoneMatch |-> match]
NoHeader == << >>
NoRequest == [acceptEncoding |-> << >>, ifNoneMatch |-> NoHeader,
              none |-> TRUE]

\* What a call wrote to the http.ResponseWriter and the error it returned;
\* status 0: WriteHeader was not called and nothing was written
Response(status, eTag, encoding, body, err) ==
    [status |-> status, eTag |-> eTag, encoding |-> encoding, body |-> body,
     err |-> err]
NoResponse == Response(0, NoHeader, NoHeader, << >>, NoError)
ErrLevel == "unknown compression level"

\* strings.Contains(r.Header.Get("Accept-Encoding"), "deflate")
SupportsDeflate(req) ==
    \E i \in DOMAIN req.acceptEncoding : req.acceptEncoding[i] = "deflate"

\* Seeded fault: If-None-Match is compared with the compressed ETag whatever
\* the request accepts
ServedETag_Mutant(recs, rec, req) == recs[rec].eTag

\* The ETag WriteHTTP serves rec with to the request req
ServedETag(recs, rec, req) ==
    IF SupportsDeflate(req) THEN recs[rec].eTag
    ELSE ETagDecompressed(recs[rec].eTag)

\* Frontend.WriteHTTP after getGeneratedRecord returned rec, err
WriteHTTP(recs, rec, err, req) ==
    IF err # NoError THEN Response(0, NoHeader, NoHeader, << >>, err)
    ELSE IF req.ifNoneMatch = ServedETag(recs, rec, req)
    THEN Response(304, NoHeader, NoHeader, << >>, NoError)
    ELSE IF ~SupportsDeflate(req)
    THEN Response(200, ServedETag(recs, rec, req), NoHeader,
                  Decompress(recs, rec), NoError)
    ELSE IF CompressionLevel \notin KnownLevels
    THEN Response(0, ServedETag(recs, rec, req), << "deflate" >>, << >>,
                  ErrLevel)
    ELSE Response(200, ServedETag(recs, rec, req), << "deflate" >>,
                  ZlibHeader(CompressionLevel) \o WriteTo(recs, rec)
                      \o ZlibFooter(recs[rec].frameDescriptor.checksum),
                  NoError)

\* A goroutine's exchange: the request of its call of WriteHTTP (NoRequest
\* when its call is one of Frontend.Get), the response the call wrote, and
\* the response its call before wrote
Exchange(req, response, before) ==
    [request |-> req, response |-> response, before |-> before]
NoExchange == Exchange(NoRequest, NoResponse, NoResponse)

\* ------------------------------------------------------- locking discipline
\* The goroutines: a caller of the package, the scheduler started by init and
\* a goroutine started with go evict(ch, 0)
Scheduler == "scheduler"
Evictor == "evictor"
Callers == {"caller"}
Goroutines == Callers \cup {Scheduler, Evictor}
Free == "free"

\* What a goroutine does to a mutex or to the channel: cacheMu.RLock and
\* RUnlock, c.mu.Lock and Unlock of cache id, evictAfter <- req, the loop of
\* evictWithLock over the includers of a record of cache id with its
\* go evict(ch, 0), and the generator's own code
Instr(op, id) == [op |-> op, id |-> id]
RLock == Instr("RLock", 0)
RUnlock == Instr("RUnlock", 0)
Lock(id) == Instr("Lock", id)
Unlock(id) == Instr("Unlock", id)
Send(id) == Instr("Send", id)
Go(id) == Instr("Go", id)
RunGenerator == Instr("Generate", 0)

\* getCache(id): cacheMu.RLock(); defer cacheMu.RUnlock(); return caches[id]
GetCacheCode == << RLock, RUnlock >>

\* Seeded fault: the mutex is not unlocked when the function returns
Locked_Mutant(id, bodies) == {<< Lock(id) >> \o body : body \in bodies}

\* c.mu.Lock(); defer c.mu.Unlock(); and one of the bodies
Locked(id, bodies) ==
    {<< Lock(id) >> \o body \o << Unlock(id) >> : body \in bodies}

\* evictWithLock(loc, 0): the record is not there or nothing includes it, the
\* records that include it are in this cache (the call recurses under the
\* lock), or one of them is in another cache: go evict(ch, 0)
CascadeCode(id) == {<< Go(id) >>}

\* evictWithLock(loc, t), t # 0, on each of n locations: a request is sent
\* for each record that is there
SendCode(id, n) == {[i \in 1 .. k |-> Send(id)] : k \in 0 .. n}

\* Cache.evict(loc, 0) and the package level evict(loc, 0)
EvictNowCode(id) == Locked(id, CascadeCode(id))
GoEvictCode(id) == {GetCacheCode \o code : code \in EvictNowCode(id)}

\* Cache.evict(loc, t), evictFrontend(f, t) and Cache.EvictAll(t) with a timer
EvictLaterCode(id) ==
    Locked(id, SendCode(id, Cardinality({l \in Locs : l.cache = id})))

\* Cache.getRecord: the lookup and the eviction loop under the mutex
GetRecordCode(id) == Locked(id, CascadeCode(id))

\* Cache.setUsedMemory
SetUsedMemoryCode(id) == Locked(id, {<< >>})

\* registerInclusion(parent, child), id the cache of the child
RegisterCode(id) == {GetCacheCode \o code : code \in Locked(id, {<< >>})}

\* s \o t for every s of S and t of T
Then(S, T) == {s \o t : s \in S, t \in T}

\* Frontend.getGeneratedRecord(k) for location l: getRecord, and for a fresh
\* record populate: the generator runs, its writes lock nothing, each Include
\* or Bind is getGeneratedRecord of the child and, if it returned nil, the
\* registration, and the generator runs on; then setUsedMemory, or on an
\* error Cache.evict(loc, 0)
RECURSIVE GeneratedCode(_), GeneratorCode(_, _)
GeneratedCode(l) ==
    Then(GetRecordCode(l.cache),
         {<< >>} \cup Then({<< RunGenerator >>}, GeneratorCode(l, Getter(l))))
GeneratorCode(l, ops) ==
    IF ops = << >>
    THEN SetUsedMemoryCode(l.cache) \cup EvictNowCode(l.cache)
    ELSE IF Head(ops).kind = "write"
    THEN GeneratorCode(l, Tail(ops))
    ELSE Then(GeneratedCode(Head(ops).loc),
              EvictNowCode(l.cache)
                  \cup Then(RegisterCode(Head(ops).loc.cache),
                            Then({<< RunGenerator >>},
                                 GeneratorCode(l, Tail(ops)))))

\* The mutexes: the goroutine that holds c.mu of each cache, the readers of
\* cacheMu; the code each goroutine has yet to run in its call; the caches of
\* the requests in evictAfter and the caches with a pending deadline
NoLocks ==
    [mu |-> [id \in CacheIds |-> Free], cacheMu |-> {},
     code |-> [g \in Goroutines |-> << >>], queue |-> << >>,
     pending |-> {}]

\* A linkedList of its own: the list, and the nodes in the order they were
\* last prepended or moved to the front, the latest first
NoCascade == << >>
NoList == [list |-> EmptyList, order |-> << >>]

\* ------------------------------------------------------------- construction
\* The limits the caches are created with (zero disables a limit)
MemoryLimits == {0, 1}
LRULimits == {0, 1}

\* The caches are constructed without limits or with both of them
Together(memoryLimit, lruLimit) == (memoryLimit = 0) <=> (lruLimit = 0)

\* Caches, records and goroutines after construction
Constructed ==
    /\ \E m \in MemoryLimits, l \in LRULimits :
           /\ Together(m, l)
           /\ caches = [id \in CacheIds |-> NewCache(id, m, l)]
    /\ records = [r \in RecIds |-> ZeroRecord]
    /\ tasks = [t \in Tasks |-> IdleTask]
    /\ now = 0
    /\ spawned = {}
    /\ evictAfter = << >>
    /\ pending = [l \in Locs |-> NoDeadline]
    /\ scanning = {}
    /\ received = [l \in Locs |-> {}]
    /\ fatal = NoFatal
    /\ gets = 0
    /\ matcherErr = NoError
    /\ http = [t \in Tasks |-> NoExchange]
    /\ getters = Recursion
    /\ opens = [r \in RecIds |-> 0]

Init ==
    /\ Constructed
    /\ frames = NoFrames
    /\ grouping = NoGrouping
    /\ locks = NoLocks
    /\ lru = NoList
    /\ cascaded = NoCascade

\* ------------------------------------------------------------------ actions
\* The call of getGeneratedRecord that got g from getRecord. A fresh record
\* is populated: the generator starts, and fails at once if fail.
Started(l, g, fail) ==
    LET f == Frame(l, g.rec, g.fresh)
    IN IF ~g.fresh THEN f
       ELSE IF fail THEN GenerateError(f)
       ELSE Generate(f)

\* getRecord returned g; new is the address of the record it may have made
Entered(t, l, below, fail, new, g) ==
    /\ fail => g.fresh
    /\ fatal' = g.fatal
    /\ spawned' = spawned \cup g.spawned
    /\ Commit([caches EXCEPT ![l.cache] = g.cache],
              IF g.fresh THEN [records EXCEPT ![new] = SemInit(ZeroRecord)]
              ELSE records,
              [tasks EXCEPT ![t].stack = Append(below, Started(l, g, fail)),
                            ![t].result = NoResult],
              opens)

\* new(record) yields the address new
Allocated(t, l, below, fail, time, new) ==
    /\ new = Nil => has(caches[l.cache], RLoc(l))
    /\ \E g \in {getRecord(caches[l.cache], RLoc(l), new, time)} :
           Entered(t, l, below, fail, new, g)

\* f.cache.getRecord(loc) at the start of getGeneratedRecord(k), called by
\* task t whose calls in progress are below; pushes the new call
Enter(t, l, below, fail, time) ==
    /\ fail => MayFail(l)
    /\ now' = time
    /\ \E new \in {NewRecord(l)} : Allocated(t, l, below, fail, time, new)
    /\ UNCHANGED << evictAfter, scheduler, matcherErr, frames, grouping,
                    getters, locks, lru, cascaded >>

\* time.Now() is monotonic: a reading is not earlier than the latest one
Readings == {time \in Times : time >= now}

\* Frontend.Get(k) is called by an idle goroutine
Get(t, l) ==
    /\ fatal = NoFatal
    /\ ~Running(t)
    /\ gets < MaxGets
    /\ gets' = gets + 1
    /\ http' = [http EXCEPT ![t] = NoExchange]
    /\ \E fail \in BOOLEAN, time \in Readings :
           Enter(t, l, << >>, fail, time)

\* The generator calls rw.Include or rw.Bind: RecordWriter.bind flushes the
\* frame in progress and calls f.getGeneratedRecord(k)
Bind(t) ==
    /\ fatal = NoFatal
    /\ Running(t)
    /\ Top(t).pc = "generate"
    /\ LET f == Top(t)
           g == [f EXCEPT !.rw = flush(f.rw, FALSE), !.pc = "bind"]
       IN \E fail \in BOOLEAN, time \in Readings :
              Enter(t, Op(f).loc, Append(Below(t), g), fail, time)
    /\ UNCHANGED << gets, http >>

\* Seeded fault: populate returns nil for a record without components
EmptyRecord_Mutant(f, rw) == [f EXCEPT !.rw = NewWriter, !.pc = "unblock"]

\* if rw.data.component == nil { return ErrEmptyRecord }
EmptyRecord(f, rw) ==
    [f EXCEPT !.rw = rw, !.err = ErrEmptyRecord, !.pc = "failed"]

\* Frontend.populate after the generator returned nil: the final flush, the
\* record's contents and Cache.setUsedMemory
Populate(t) ==
    /\ fatal = NoFatal
    /\ Running(t)
    /\ Top(t).pc = "populate"
    /\ LET f == Top(t)
           rw == flush(f.rw, TRUE)
           c == caches[f.loc.cache]
       IN IF rw.data = << >>
          THEN /\ tasks' = [tasks EXCEPT ![t].stack =
                     Append(Below(t), EmptyRecord(f, rw))]
               /\ UNCHANGED << caches, records, opens >>
          ELSE Commit(
                 [caches EXCEPT ![f.loc.cache] =
                     setUsedMemory(c, f.rec, RLoc(f.loc), MemoryOf(rw.data))],
                 [records EXCEPT ![f.rec] = Populated(records, f.rec, rw.data)],
                 [tasks EXCEPT ![t].stack =
                     Append(Below(t), [f EXCEPT !.rw = NewWriter,
                                                !.pc = "unblock"])],
                 opens)
    /\ UNCHANGED << now, spawned, evictAfter, scheduler, fatal, gets, matcherErr, frames, grouping, http,
                    getters, locks, lru, cascaded >>

\* Seeded fault: the error is not stored in the record
StoreError_Mutant(r, err) == r

\* rec.populationError = err
StoreError(r, err) == [r EXCEPT !.populationError = err]

\* getGeneratedRecord after populate returned err: the error is stored in
\* the record and the location is evicted
Failed(t) ==
    /\ fatal = NoFatal
    /\ Running(t)
    /\ Top(t).pc = "failed"
    /\ LET f == Top(t)
           e == evict(caches[f.loc.cache], RLoc(f.loc), 0)
       IN /\ Commit(
                 [caches EXCEPT ![f.loc.cache] = e.cache],
                 [records EXCEPT ![f.rec] = StoreError(@, f.err)],
                 [tasks EXCEPT ![t].stack =
                     Append(Below(t), [f EXCEPT !.rw = NewWriter,
                                                !.pc = "unblock"])],
                 opens)
          /\ spawned' = spawned \cup e.spawned
          /\ evictAfter' = evictAfter \o e.sent
    /\ UNCHANGED << now, scheduler, fatal, gets, matcherErr, frames, grouping, http,
                    getters, locks, lru, cascaded >>

\* What Frontend.Get hands to its caller
Result(f, recs) ==
    LET err == recs[f.rec].populationError
    IN [loc |-> f.loc, rec |-> f.rec, err |-> err,
        stream |-> IF err = NoError THEN WriteTo(recs, f.rec) ELSE << >>]

\* Seeded fault: bind goes on to register when getGeneratedRecord failed
bound_Mutant(caller, rec, err) ==
    [caller EXCEPT !.child = rec, !.pc = "register"]

\* RecordWriter.bind after f.getGeneratedRecord(k) returned rec, err to the
\* call caller: on an error bind and Include / Bind return it and the
\* generator returns it
bound(caller, rec, err) ==
    IF err # NoError
    THEN [caller EXCEPT !.err = err, !.pc = "failed"]
    ELSE [caller EXCEPT !.child = rec, !.pc = "register"]

\* getGeneratedRecord returns rec and rec.populationError: to the caller of
\* Frontend.Get, or to RecordWriter.bind
Return(t, recs) ==
    LET f == Top(t)
        below == Below(t)
    IN IF below = << >>
       THEN [tasks EXCEPT ![t] = [stack |-> << >>, result |-> Result(f, recs)]]
       ELSE [tasks EXCEPT ![t].stack =
                Append(SubSeq(below, 1, Len(below) - 1),
                       bound(below[Len(below)], f.rec,
                             recs[f.rec].populationError))]

\* getGeneratedRecord returns to WriteHTTP, which answers the request
Responded(t, recs) ==
    IF Below(t) # << >> \/ http[t].request = NoRequest THEN http
    ELSE [http EXCEPT ![t].response =
             WriteHTTP(recs, Top(t).rec, recs[Top(t).rec].populationError,
                       http[t].request)]

\* rec.semaphore.Unblock() by the populator; its own rec.semaphore.Wait()
\* then returns on the hot path
Unblock(t) ==
    /\ fatal = NoFatal
    /\ Running(t)
    /\ Top(t).pc = "unblock"
    /\ LET f == Top(t)
           recs == [records EXCEPT ![f.rec] = SemUnblock(@)]
       IN /\ fatal' = IF records[f.rec].locked THEN NoFatal ELSE FatalUnlock
          /\ SemWaitReturns(recs[f.rec])
          /\ Commit(caches, recs, Return(t, recs),
                    [opens EXCEPT ![f.rec] = @ + 1])
          /\ http' = Responded(t, recs)
    /\ UNCHANGED << now, spawned, evictAfter, scheduler, gets, matcherErr, frames, grouping,
                    getters, locks, lru, cascaded >>

\* rec.semaphore.Wait() returns to a caller that found the record in the
\* cache
Wait(t) ==
    /\ fatal = NoFatal
    /\ Running(t)
    /\ Top(t).pc = "wait"
    /\ SemWaitReturns(records[Top(t).rec])
    /\ Commit(caches, records, Return(t, records), opens)
    /\ http' = Responded(t, records)
    /\ UNCHANGED << now, spawned, evictAfter, scheduler, fatal, gets, matcherErr, frames, grouping,
                    getters, locks, lru, cascaded >>

\* RecordWriter.bind registers the dependency; Include then appends the
\* reference to the record
Register(t) ==
    /\ fatal = NoFatal
    /\ Running(t)
    /\ Top(t).pc = "register"
    /\ LET f == Top(t)
           child == Op(f).loc
           rw == IF Op(f).kind = "include"
                 THEN append(f.rw, Reference(f.child, records[f.child].hash))
                 ELSE f.rw
       IN Commit(
            [caches EXCEPT ![child.cache] =
                registerInclusion(@, f.loc, RLoc(child))],
            records,
            [tasks EXCEPT ![t].stack =
                Append(Below(t),
                       Generate([f EXCEPT !.rw = rw, !.child = Nil,
                                          !.ip = @ + 1]))],
            opens)
    /\ UNCHANGED << now, spawned, evictAfter, scheduler, fatal, gets, matcherErr, frames, grouping, http,
                    getters, locks, lru, cascaded >>

\* An eviction has run on cache id
Evictions(id, e) ==
    /\ Commit([caches EXCEPT ![id] = e.cache], records, tasks, opens)
    /\ spawned' = spawned \cup e.spawned
    /\ evictAfter' = evictAfter \o e.sent
    /\ UNCHANGED << now, scheduler, fatal, gets, matcherErr, frames, grouping, http,
                    getters, locks, lru, cascaded >>

\* evict(loc, 0): Frontend.Evict(0, k) called by the user, or a goroutine
\* started by a cascade
\* Evict of a location that holds no record returns at once (if !ok): that
\* call changes nothing and is left to stuttering.
Evict(l) ==
    /\ fatal = NoFatal
    /\ \E go \in BOOLEAN :
        /\ go => l \in spawned
        /\ go \/ has(caches[l.cache], RLoc(l))
        /\ LET e == evict(caches[l.cache], RLoc(l), 0)
           IN /\ Commit([caches EXCEPT ![l.cache] = e.cache], records, tasks,
                        opens)
              /\ spawned' = (IF go THEN spawned \ {l} ELSE spawned)
                            \cup e.spawned
              /\ evictAfter' = evictAfter \o e.sent
    /\ UNCHANGED << now, scheduler, fatal, gets, matcherErr, frames, grouping, http,
                    getters, locks, lru, cascaded >>

\* Frontend.EvictAll(0)
\* EvictAll of a frontend or a cache that holds no record ranges over
\* nothing: that call changes nothing and is left to stuttering.
FrontendEvictAll(id, frontend) ==
    /\ fatal = NoFatal
    /\ keys(caches[id], frontend) # << >>
    /\ Evictions(id, evictFrontendWithLock(caches[id], frontend, 0))

\* Cache.EvictAll(0)
CacheEvictAll(id) ==
    /\ fatal = NoFatal
    /\ \E loc \in RLocs : has(caches[id], loc)
    /\ Evictions(id, EvictAll(caches[id], 0))

Next ==
    \/ \E t \in Tasks : \E l \in Calls(t) : Get(t, l)
    \/ \E t \in Tasks : Bind(t)
    \/ \E t \in Tasks : Populate(t)
    \/ \E t \in Tasks : Failed(t)
    \/ \E t \in Tasks : Unblock(t)
    \/ \E t \in Tasks : Wait(t)
    \/ \E t \in Tasks : Register(t)
    \/ \E l \in Locs : Evict(l)
    \/ \E l \in Locs : FrontendEvictAll(l.cache, l.frontend)
    \/ \E id \in CacheIds : CacheEvictAll(id)

Spec == Init /\ [][Next]_vars

\* ------------------------------------------------------ scheduled eviction
\* The timers eviction is scheduled with
Delays == {1, 2}

\* Seeded fault: every request replaces the pending deadline
schedule_Mutant(p, loc, deadline) == [p EXCEPT ![loc] = deadline]

\* if !ok || deadline.Before(existing) { pending[req.loc] = deadline }
schedule(p, loc, deadline) ==
    IF p[loc] = NoDeadline \/ deadline < p[loc]
    THEN [p EXCEPT ![loc] = deadline]
    ELSE p

\* Seeded fault: the scan also dispatches entries that are not yet due
due_Mutant(p, time) == {l \in Locs : p[l] # NoDeadline}

\* Seeded fault: the scan also dispatches the entries whose deadline is the
\* time it read
dueAtDeadline_Mutant(p, time) ==
    {l \in Locs : p[l] # NoDeadline /\ p[l] <= time}

\* The entries of pending a scan that reads time dispatches:
\* deadline.Before(now)
due(p, time) == {l \in Locs : p[l] # NoDeadline /\ p[l] < time}

\* Frontend.Evict(d, k) with a timer: the request is sent on evictAfter if
\* the record is in the cache. The send blocks while the channel is full.
EvictAfter(l, d) ==
    /\ fatal = NoFatal
    /\ Len(evictAfter) < MaxQueue
    /\ evictAfter' = evictAfter \o evict(caches[l.cache], RLoc(l), d).sent
    /\ UNCHANGED << caches, records, tasks, now, spawned, scheduler, fatal,
                    gets, matcherErr, frames, grouping, http, opens,
                    getters, locks, lru, cascaded >>

\* case req := <-evictAfter
Receive ==
    /\ fatal = NoFatal
    /\ scanning = {}
    /\ evictAfter # << >>
    /\ \E time \in Readings :
        LET req == Head(evictAfter) IN
        /\ now' = time
        /\ pending' = schedule(pending, req.loc, time + req.timer)
        /\ received' = [received EXCEPT ![req.loc] = @ \cup {time + req.timer}]
    /\ evictAfter' = Tail(evictAfter)
    /\ UNCHANGED << caches, records, tasks, spawned, scanning, fatal, gets, matcherErr, frames, grouping, http,
                    opens,
                    getters, locks, lru, cascaded >>

\* case <-scan: now := time.Now(), and the loop over pending starts. A scan
\* that finds no entry due has read the clock and changes nothing else.
Tick ==
    /\ fatal = NoFatal
    /\ scanning = {}
    /\ \E time \in Readings :
        /\ now' = time
        /\ scanning' = due(pending, time)
    /\ UNCHANGED << caches, records, tasks, spawned, evictAfter, pending,
                    fatal, gets, matcherErr, frames, grouping, http, opens, received,
                    getters, locks, lru, cascaded >>

\* The loop of the scan comes to l: delete(pending, loc); evict(loc, 0)
Dispatch(l) ==
    /\ fatal = NoFatal
    /\ l \in scanning
    /\ scanning' = scanning \ {l}
    /\ pending' = [pending EXCEPT ![l] = NoDeadline]
    /\ received' = [received EXCEPT ![l] = {}]
    /\ \E e \in {evict(caches[l.cache], RLoc(l), 0)} :
          /\ Commit([caches EXCEPT ![l.cache] = e.cache], records, tasks,
                    opens)
          /\ spawned' = spawned \cup e.spawned
          /\ evictAfter' = evictAfter \o e.sent
    /\ UNCHANGED << now, fatal, gets, matcherErr, frames, grouping, http,
                    getters, locks, lru, cascaded >>

\* The key the goroutines ask for while evictions are scheduled
Requests(t) == {LocA}

\* Gets, immediate and scheduled evictions, and the scheduler
SchedulerNext ==
    \/ \E t \in Tasks : \E l \in Requests(t) : Get(t, l)
    \/ \E t \in Tasks : Populate(t)
    \/ \E t \in Tasks : Failed(t)
    \/ \E t \in Tasks : Unblock(t)
    \/ \E t \in Tasks : Wait(t)
    \/ \E l \in Locs : Evict(l)
    \/ \E l \in Locs : \E d \in Delays : EvictAfter(l, d)
    \/ Receive
    \/ Tick
    \/ \E l \in Locs : Dispatch(l)

SchedulerSpec == Init /\ [][SchedulerNext]_vars

\* The locations that get a record, and so can get a pending deadline
Scheduled == UNION {Requests(t) : t \in Tasks}

\* The scheduler goroutine is not starved: the ticker fires and the loop of
\* a scan goes on
FairSchedulerSpec ==
    /\ SchedulerSpec
    /\ WF_vars(Tick)
    /\ \A l \in Scheduled : WF_vars(Dispatch(l))

\* -------------------------------------------------------- descriptor fold
\* The frames a generator writes: runs of these bytes and lengths
RunBytes == {0, 1, 255}
RunLengths == 0 .. MaxLow
Runs == {Run(byte, wraps, low) : byte \in RunBytes, wraps \in 0 .. MaxWraps,
                                 low \in RunLengths}

\* A generator starts to write the components of a record
FoldInit ==
    /\ Constructed
    /\ frames = [NoFrames EXCEPT !.pc = "write"]
    /\ grouping = NoGrouping
    /\ locks = NoLocks
    /\ lru = NoList
    /\ cascaded = NoCascade

\* The writer flushes the frame of one run written with Write or ReadFrom
FlushFrame(run) ==
    /\ frames.pc = "write"
    /\ frames.count < MaxFrames
    /\ frames' = [frames EXCEPT !.rhs = FrameOf(<< run >>),
                                !.frame = << run >>,
                                !.count = @ + 1,
                                !.pc = "append"]
    /\ UNCHANGED << caches, records, tasks, now, spawned, evictAfter,
                    scheduler, fatal, gets, matcherErr, grouping, http, opens,
                    getters, locks, lru, cascaded >>

\* Frontend.populate folds the descriptor of the component: the descriptor
\* of the first component is taken, those of the others are appended
FoldFrame ==
    /\ frames.pc = "append"
    /\ frames' = [frames EXCEPT
                    !.f = IF frames.count = 1 THEN frames.rhs
                          ELSE AppendDescriptor(frames.f, frames.rhs),
                    !.folded = @ \o frames.frame,
                    !.pc = "write"]
    /\ UNCHANGED << caches, records, tasks, now, spawned, evictAfter,
                    scheduler, fatal, gets, matcherErr, grouping, http, opens,
                    getters, locks, lru, cascaded >>

FoldNext == (\E run \in Runs : FlushFrame(run)) \/ FoldFrame

FoldSpec == FoldInit /\ [][FoldNext]_vars

\* ------------------------------------------------------ grouping actions
\* A generator writes the frame p (a Bind ends the frame before it)
WriteLeaf(p) ==
    /\ Len(LeavesOf(grouping.tree)) < MaxLeaves
    /\ grouping' = [grouping EXCEPT !.tree = Append(@, Leaf(p))]
    /\ UNCHANGED << caches, records, tasks, now, spawned, evictAfter,
                    scheduler, fatal, gets, matcherErr, frames, http, opens,
                    getters, locks, lru, cascaded >>

\* The components i .. j are written by the generator of another record,
\* which the generator includes in their place
Group(i, j) ==
    /\ i <= j
    /\ j <= Len(grouping.tree)
    /\ DepthOf(grouping.tree) < MaxDepth
    /\ grouping' =
           [grouping EXCEPT
              !.tree = SubSeq(@, 1, i - 1)
                           \o << Included(SubSeq(@, i, j)) >>
                           \o SubSeq(@, j + 1, Len(@))]
    /\ UNCHANGED << caches, records, tasks, now, spawned, evictAfter,
                    scheduler, fatal, gets, matcherErr, frames, http, opens,
                    getters, locks, lru, cascaded >>

GroupNext ==
    \/ \E p \in LeafFrames : WriteLeaf(p)
    \/ \E i, j \in 1 .. MaxLeaves : Group(i, j)

GroupSpec == Init /\ [][GroupNext]_vars

\* ------------------------------------------------------------ HTTP requests
\* The Accept-Encoding headers of the requests, and the ETags a client may
\* send as If-None-Match: those of the responses written so far
AcceptEncodings == {<< >>, << "gzip", "deflate" >>}
Validators ==
    {NoHeader} \cup {http[t].response.eTag : t \in Tasks}
               \cup {http[t].before.eTag : t \in Tasks}
HTTPRequests == {Request(accept, match) :
                    accept \in AcceptEncodings, match \in Validators}

\* The pages the clients ask for
Pages(t) == IF t = 1 THEN {LocA} ELSE {LocB}

\* Frontend.WriteHTTP(k, w, r) is called by an idle goroutine
CallWriteHTTP(t, l, req) ==
    /\ fatal = NoFatal
    /\ ~Running(t)
    /\ gets < MaxRequests
    /\ gets' = gets + 1
    /\ http' = [http EXCEPT ![t] = Exchange(req, NoResponse, @.response)]
    /\ \E fail \in BOOLEAN, time \in Readings :
           Enter(t, l, << >>, fail, time)

HTTPNext ==
    \/ \E t \in Tasks : \E l \in Pages(t) : \E req \in HTTPRequests :
           CallWriteHTTP(t, l, req)
    \/ \E t \in Tasks : Bind(t)
    \/ \E t \in Tasks : Populate(t)
    \/ \E t \in Tasks : Failed(t)
    \/ \E t \in Tasks : Unblock(t)
    \/ \E t \in Tasks : Wait(t)
    \/ \E t \in Tasks : Register(t)

HTTPSpec == Init /\ [][HTTPNext]_vars

\* ------------------------------------------------------ selective eviction
\* The keys of the frontends and the matcher functions EvictByFunc is called
\* with: a matcher answers (evict, err) for each key
Keys == {loc.key : loc \in RLocs}
Frontends == {loc.frontend : loc \in RLocs}
Matchers ==
    [Keys -> {Answer(FALSE, NoError), Answer(TRUE, NoError),
              Answer(FALSE, ErrSample)}]

\* The orders in which ranging over a map can yield the keys S
Orders(S) ==
    {ks \in [1 .. Cardinality(S) -> S] :
        \A i, j \in 1 .. Cardinality(S) : ks[i] = ks[j] => i = j}

\* The keys of a frontend of cache c
KeysOf(c, frontend) == {loc \in RLocs : loc.frontend = frontend /\ has(c, loc)}

\* Frontend.EvictByFunc(0, fn)
EvictByFunc(id, frontend, ks, fn) ==
    /\ fatal = NoFatal
    /\ ks \in Orders(KeysOf(caches[id], frontend))
    /\ \E e \in {evictByFunc(caches[id], ks, 0, fn)} :
          /\ Commit([caches EXCEPT ![id] = e.cache], records, tasks, opens)
          /\ spawned' = spawned \cup e.spawned
          /\ evictAfter' = evictAfter \o e.sent
          /\ matcherErr' = e.err
    /\ UNCHANGED << now, scheduler, fatal, gets, frames, grouping, http,
                    getters, locks, lru, cascaded >>

\* The keys the goroutines ask for while records are evicted by function
Selected(t) == IF t = 1 THEN {LocC} ELSE {LocD}

\* Gets and evictions by matcher function
SelectiveNext ==
    \/ \E t \in Tasks : \E l \in Selected(t) : Get(t, l)
    \/ \E t \in Tasks : Bind(t)
    \/ \E t \in Tasks : Populate(t)
    \/ \E t \in Tasks : Failed(t)
    \/ \E t \in Tasks : Unblock(t)
    \/ \E t \in Tasks : Wait(t)
    \/ \E t \in Tasks : Register(t)
    \/ \E id \in CacheIds, frontend \in Frontends, fn \in Matchers :
           \E ks \in Orders(KeysOf(caches[id], frontend)) :
               EvictByFunc(id, frontend, ks, fn)

SelectiveSpec == Init /\ [][SelectiveNext]_vars

\* --------------------------------------------------------------- properties
\* The calls of getGeneratedRecord in progress, as << task, depth >>
FrameIds == UNION {{<< t, i >> : i \in DOMAIN tasks[t].stack} : t \in Tasks}
FrameAt(x) == tasks[x[1]].stack[x[2]]

\* The call populates its record: it was elected by getRecord and has not
\* yet come to rec.semaphore.Unblock()
Populating(f) == f.fresh /\ f.pc # "unblock"

\* The bucket entry of location l, and whether record r is in a bucket
Cached(l) == caches[l.cache].buckets[RLoc(l)]
InBucket(r) == \E l \in Locs : Cached(l).rec = r

\* Task t enters getGeneratedRecord in this step; the call it pushes
Enters(t) == Len(tasks'[t].stack) = Len(tasks[t].stack) + 1
Pushed(t) == tasks'[t].stack[Len(tasks'[t].stack)]

\* The top call of task t returns in this step
Returns(t) == Len(tasks'[t].stack) < Len(tasks[t].stack)

\* C1: a call for a key that is in the bucket does not run the generator: it
\* gets the bucket's record instance and waits on its gate; only a call that
\* finds no entry is elected.
C1_Election ==
    \A t \in Tasks :
        Enters(t) =>
            LET f == Pushed(t)
                e == Cached(f.loc)
            IN IF e # NoEntry
               THEN ~f.fresh /\ f.rec = e.rec /\ f.pc = "wait"
               ELSE f.fresh /\ f.pc # "wait"

\* C1: a record instance has one populator, and the callers that were handed
\* the same instance were handed the same contents, those of the record.
C1_SameContents ==
    /\ \A x, y \in FrameIds :
           x # y /\ FrameAt(x).rec = FrameAt(y).rec
               => ~(FrameAt(x).fresh /\ FrameAt(y).fresh)
    /\ \A t \in Tasks :
           tasks[t].result.rec # Nil /\ tasks[t].result.err = NoError
               => tasks[t].result.stream = WriteTo(records, tasks[t].result.rec)
    /\ \A t, u \in Tasks :
           tasks[t].result.rec # Nil /\ tasks[t].result.rec = tasks[u].result.rec
               => /\ tasks[t].result.err = tasks[u].result.err
                  /\ tasks[t].result.stream = tasks[u].result.stream

\* C1 (deduplication): while the record of a key is in the bucket the
\* generator of the key is not invoked again; one caller is the populator,
\* the others wait on the gate, and all of them receive the same record
\* instance with identical contents.
C1_Deduplication == [][C1_Election]_vars /\ []C1_SameContents

\* C1 witness: one caller populates a cached record while another caller of
\* the same key waits on the gate of the same instance
C1_Witness ==
    \E x, y \in FrameIds :
        /\ x[1] # y[1]
        /\ FrameAt(x).rec = FrameAt(y).rec
        /\ Populating(FrameAt(x))
        /\ FrameAt(y).pc = "wait"
        /\ Cached(FrameAt(x).loc).rec = FrameAt(x).rec

\* C2 as stated: at any time at most one call is populating a given
\* (cache, frontend, key), also when the key's record is evicted while its
\* population is in progress.
C2_OnePopulatorPerKey ==
    \A x, y \in FrameIds :
        x # y /\ Populating(FrameAt(x)) /\ Populating(FrameAt(y))
            => FrameAt(x).loc # FrameAt(y).loc

\* C2 amended: at any time at most one call is populating a given record
\* instance, and of the calls populating one key at most one populates the
\* instance that is in the bucket; the others populate instances that were
\* evicted while their population was in progress.
C2_OnePopulatorPerInstance ==
    /\ \A x, y \in FrameIds :
           x # y /\ Populating(FrameAt(x)) /\ Populating(FrameAt(y))
               => FrameAt(x).rec # FrameAt(y).rec
    /\ \A l \in Locs :
           Cardinality({x \in FrameIds : /\ Populating(FrameAt(x))
                                         /\ FrameAt(x).loc = l
                                         /\ FrameAt(x).rec = Cached(l).rec}) <= 1

\* C2 witness: a record was evicted while its population was in progress and
\* a second call was elected populator of a new instance of the key
C2_Witness ==
    \E x, y \in FrameIds :
        /\ Populating(FrameAt(x)) /\ Populating(FrameAt(y))
        /\ FrameAt(x).loc = FrameAt(y).loc
        /\ Cached(FrameAt(x).loc).rec = FrameAt(y).rec
        /\ ~InBucket(FrameAt(x).rec)

\* The records a reader holds: results of Frontend.Get, records returned to
\* RecordWriter.bind and reference components
Held ==
    {tasks[t].result.rec : t \in Tasks}
    \cup {FrameAt(x).child : x \in FrameIds}
    \cup UNION {RefsOf(FrameAt(x).rw.data) : x \in FrameIds}
    \cup UNION {RefsOf(records[r].data) : r \in RecIds}

\* C3: a gate is opened at most once and only after the contents or the
\* error were written; it is blocked while the populator is at work; no
\* reader holds a record whose gate is not open; Wait returns once it is open.
C3_GateState ==
    /\ fatal # FatalUnlock
    /\ \A r \in RecIds :
           /\ opens[r] <= 1
           /\ opens[r] = records[r].finished
           /\ records[r].finished = 1 =>
                  /\ ~records[r].locked
                  /\ records[r].data # << >>
                         \/ records[r].populationError # NoError
    /\ \A x \in FrameIds :
           FrameAt(x).fresh =>
               /\ records[FrameAt(x).rec].finished = 0
               /\ records[FrameAt(x).rec].locked
    /\ \A r \in Held \ {Nil} : records[r].finished = 1
    /\ \A t \in Tasks :
           /\ fatal = NoFatal
           /\ Running(t)
           /\ Top(t).pc = "wait"
           /\ records[Top(t).rec].finished = 1
           => ENABLED Wait(t)

\* C3: the gate of a record is opened by the call that was elected its
\* populator, after Frontend.populate has returned
C3_GateStep ==
    \A r \in RecIds :
        opens'[r] > opens[r] =>
            \E t \in Tasks :
                /\ Running(t)
                /\ Top(t).rec = r
                /\ Top(t).fresh
                /\ Top(t).pc = "unblock"
                /\ Returns(t)

\* C3 (readiness gate): the gate of every record instance is opened exactly
\* once, by its populator and after the contents (or the error) are written;
\* nothing returns or reads a record before its gate is open, and Wait does
\* not block once it is open.
C3_Gate == [][C3_GateStep]_vars /\ []C3_GateState

\* C3 witness: the populator has written the contents and has not opened the
\* gate yet, and another caller is blocked on that gate
C3_Witness ==
    \E x, y \in FrameIds :
        /\ x[1] # y[1]
        /\ FrameAt(x).rec = FrameAt(y).rec
        /\ FrameAt(x).fresh /\ FrameAt(x).pc = "unblock"
        /\ records[FrameAt(x).rec].data # << >>
        /\ FrameAt(y).pc = "wait"
        /\ ~ENABLED Wait(y[1])

\* C4: what a caller was handed is the error stored in its record instance;
\* the populator stores the generator's error before it opens the gate; a
\* record whose gate is open and that holds an error is in no bucket.
C4_ErrorState ==
    /\ \A t \in Tasks :
           tasks[t].result.rec # Nil =>
               tasks[t].result.err = records[tasks[t].result.rec].populationError
    /\ \A x \in FrameIds :
           FrameAt(x).pc = "unblock" =>
               records[FrameAt(x).rec].populationError = FrameAt(x).err
    /\ \A l \in Locs :
           Cached(l).rec # Nil /\ records[Cached(l).rec].finished = 1
               => records[Cached(l).rec].populationError = NoError

\* C4: a call that returns hands the error of its record instance to its
\* caller: Frontend.Get's caller, or RecordWriter.bind, whose generator
\* returns it
C4_ErrorStep ==
    \A t \in Tasks :
        Returns(t) =>
            LET f == Top(t)
                e == records[f.rec].populationError
                rest == tasks'[t].stack
            IN /\ f.fresh => e = f.err
               /\ IF rest = << >>
                  THEN /\ tasks'[t].result.rec = f.rec
                       /\ tasks'[t].result.err = e
                  ELSE IF e # NoError
                  THEN /\ rest[Len(rest)].err = e
                       /\ rest[Len(rest)].pc = "failed"
                  ELSE /\ rest[Len(rest)].child = f.rec
                       /\ rest[Len(rest)].err = NoError

\* C4 (error propagation): when the generator returns error E, the populator
\* and every caller that obtained the same record instance receive exactly
\* E, and when the gate opens the bucket does not map the key to the failed
\* record.
C4_ErrorPropagation == [][C4_ErrorStep]_vars /\ []C4_ErrorState

\* C4 witness: the populator and a waiter of one failed instance both
\* received errSample
C4_Witness ==
    /\ tasks[1].result.rec # Nil
    /\ tasks[1].result.rec = tasks[2].result.rec
    /\ tasks[1].result.err = ErrSample
    /\ tasks[2].result.err = ErrSample

\* The populator of a failed record opens its gate in this step
OpensFailed(t) ==
    /\ Running(t)
    /\ Top(t).pc = "unblock"
    /\ Top(t).err # NoError
    /\ tasks'[t] # tasks[t]

\* C5 as stated: when the gate of a failed record has opened, the next Get
\* on the key finds no entry in the bucket.
C5_NextGetFindsNoEntry ==
    [][\A t \in Tasks :
           OpensFailed(t) =>
               caches'[Top(t).loc.cache].buckets[RLoc(Top(t).loc)] = NoEntry]_vars

\* C5 amended, state: a failed record whose gate is open is in no bucket,
\* and an error a caller was handed is the error of the instance it obtained
C5_FailedState ==
    /\ \A r \in RecIds :
           records[r].finished = 1 /\ records[r].populationError # NoError
               => ~InBucket(r)
    /\ \A t \in Tasks :
           tasks[t].result.err # NoError =>
               /\ tasks[t].result.rec # Nil
               /\ records[tasks[t].result.rec].populationError
                      = tasks[t].result.err

\* C5 amended, step: a call never obtains a failed record whose gate is open;
\* when the key has no entry it is elected populator and runs the generator,
\* otherwise it joins the instance another caller has created meanwhile
C5_FailedStep ==
    \A t \in Tasks :
        Enters(t) =>
            LET f == Pushed(t) IN
            /\ ~(/\ records'[f.rec].finished = 1
                 /\ records'[f.rec].populationError # NoError)
            /\ Cached(f.loc) = NoEntry => f.fresh /\ records'[f.rec].locked
            /\ Cached(f.loc) # NoEntry => f.rec = Cached(f.loc).rec

\* C5 amended (failed populations are not cached): once the gate of a failed
\* record has opened the record is in no bucket, so a later Get never obtains
\* it: it is elected populator of a new instance, unless another caller has
\* created one since the failed record was evicted, which it then joins; the
\* stored error is returned only to callers that obtained the failed instance.
C5_FailedNeverCached == [][C5_FailedStep]_vars /\ []C5_FailedState

\* C5 witness: a caller holds the error of a failed instance whose gate is
\* open while a later call for the same key populates a new instance
C5_Witness ==
    \E t \in Tasks, x \in FrameIds :
        /\ tasks[t].result.err = ErrSample
        /\ FrameAt(x).loc = tasks[t].result.loc
        /\ Populating(FrameAt(x))
        /\ FrameAt(x).rec # tasks[t].result.rec

\* Location p is cached with a populated record that includes the record
\* instance cached at location ch
Includes(p, ch) ==
    /\ Cached(p) # NoEntry
    /\ Cached(ch) # NoEntry
    /\ records[Cached(p).rec].finished = 1
    /\ Cached(ch).rec \in RefsOf(records[Cached(p).rec].data)

\* C6 (cascading eviction, same cache): when a record is evicted, the records
\* of its cache that included it are evicted before the evicting call
\* returns.
C6_CascadeInCache ==
    [][\A p, ch \in Locs :
           /\ p # ch
           /\ p.cache = ch.cache
           /\ Includes(p, ch)
           /\ caches'[ch.cache].buckets[RLoc(ch)] = NoEntry
           => caches'[p.cache].buckets[RLoc(p)] = NoEntry]_vars

\* The locations of the LRU list of cache c, front to back
ListLocs(c) ==
    [i \in DOMAIN ListNodes(c.lruList) |->
        c.lruList.nodes[ListNodes(c.lruList)[i]].location]

\* The list of c is well formed, each of its nodes belongs to a bucket entry
\* that points back to it, and each bucket entry has one node in the list
ListConsistent(c) ==
    LET ll == c.lruList
        ns == ListNodes(ll)
    IN /\ Len(ns) <= Cardinality(NodeIds)
       /\ \A i, j \in DOMAIN ns : ns[i] = ns[j] => i = j
       /\ ll.back = (IF ns = << >> THEN Nil ELSE ns[Len(ns)])
       /\ \A i \in DOMAIN ns :
              /\ ll.nodes[ns[i]].previous = (IF i = 1 THEN Nil ELSE ns[i - 1])
              /\ has(c, ll.nodes[ns[i]].location)
              /\ c.buckets[ll.nodes[ns[i]].location].node = ns[i]
       /\ \A loc \in RLocs :
              has(c, loc) =>
                  Cardinality({i \in DOMAIN ns :
                                   ll.nodes[ns[i]].location = loc}) = 1
       /\ \A n \in NodeIds :
              ll.nodes[n] # NoNode => \E i \in DOMAIN ns : ns[i] = n

\* C7 (LRU list and buckets): whenever the cache mutexes are free, the LRU
\* list and the buckets of every cache reference each other exactly, records
\* still being populated included, and getRecord does not panic with
\* "linked list points to evicted record".
C7_ListAndBuckets ==
    /\ fatal # PanicEvictedRecord
    /\ \A id \in CacheIds : ListConsistent(caches[id])

\* C7 witness: a cache with an LRU limit holds a populated record and one
\* that is still being populated, and another record of it is populated by a
\* call that lost its bucket entry to an eviction
C7_Witness ==
    \E id \in CacheIds, x \in FrameIds :
        /\ caches[id].lruLimit # 0
        /\ Len(ListNodes(caches[id].lruList)) = 2
        /\ \E l \in Locs : /\ l.cache = id
                           /\ Cached(l) # NoEntry
                           /\ records[Cached(l).rec].finished = 0
        /\ FrameAt(x).loc.cache = id
        /\ Populating(FrameAt(x))
        /\ ~InBucket(FrameAt(x).rec)

\* The sum of memoryUsed over the bucket entries locs of cache c
RECURSIVE SumMemoryUsed(_, _)
SumMemoryUsed(c, locs) ==
    IF locs = << >> THEN 0
    ELSE c.buckets[Head(locs)].memoryUsed + SumMemoryUsed(c, Tail(locs))

\* C8 (memory accounting): whenever the cache mutexes are free, memoryUsed of
\* every cache is the sum of memoryUsed over the records in its buckets and
\* is not negative, also when a record is evicted or replaced while it is
\* being populated.
C8_MemoryUsed ==
    \A id \in CacheIds :
        /\ caches[id].memoryUsed = SumMemoryUsed(caches[id], SeqOf(RLocs))
        /\ caches[id].memoryUsed >= 0
        /\ \A loc \in RLocs : caches[id].buckets[loc].memoryUsed >= 0

\* C8 witness: a populator has called setUsedMemory for a record that was
\* replaced in its bucket while it was populated, and the replacement is
\* populated and accounted for
C8_Witness ==
    \E x \in FrameIds :
        /\ FrameAt(x).fresh
        /\ FrameAt(x).pc = "unblock"
        /\ FrameAt(x).err = NoError
        /\ Cached(FrameAt(x).loc) # NoEntry
        /\ Cached(FrameAt(x).loc).rec # FrameAt(x).rec
        /\ Cached(FrameAt(x).loc).memoryUsed > 0
        /\ caches[FrameAt(x).loc.cache].memoryUsed > 0

\* The elements of seq that are in S, in the order of seq
Restrict(seq, S) ==
    LET In(x) == x \in S IN SelectSeq(seq, In)

Range(seq) == {seq[i] : i \in DOMAIN seq}

\* C9: the list of every cache is ordered by lastUsed, newest first
C9_Sorted ==
    \A id \in CacheIds :
        LET locs == ListLocs(caches[id])
        IN \A i \in DOMAIN locs :
               i < Len(locs) =>
                   caches[id].buckets[locs[i]].lastUsed
                       >= caches[id].buckets[locs[i + 1]].lastUsed

\* C9: getRecord leaves its location at the front, stamped with the reading
\* of the clock, and no step reorders the other locations of a list
C9_Step ==
    \A id \in CacheIds :
        LET before == ListLocs(caches[id])
            after == ListLocs(caches'[id])
            got == {RLoc(Pushed(t).loc) :
                       t \in {u \in Tasks : /\ Enters(u)
                                            /\ Pushed(u).loc.cache = id}}
            kept == (Range(before) \cap Range(after)) \ got
        IN /\ Restrict(before, kept) = Restrict(after, kept)
           /\ Range(after) \subseteq Range(before) \cup got
           /\ \A loc \in got \cap Range(after) :
                  /\ after[1] = loc
                  /\ caches'[id].buckets[loc].lastUsed = now'

\* C9 (LRU order): whenever the cache mutexes are free, the LRU list of every
\* cache, front to back, has non-increasing lastUsed: every getRecord, hit or
\* insert, puts its location at the front with the current time, and
\* eviction does not reorder the remaining nodes.
C9_LRUOrder == [][C9_Step]_vars /\ []C9_Sorted

\* C9 witness: a hit has moved the older of two records to the front of the
\* list and stamped it with a later time
C9_Witness ==
    \E id \in CacheIds :
        LET locs == ListLocs(caches[id])
        IN /\ Len(locs) = 2
           /\ caches[id].buckets[locs[1]].lastUsed
                  > caches[id].buckets[locs[2]].lastUsed
           /\ caches[id].buckets[locs[1]].node
                  < caches[id].buckets[locs[2]].node

\* The frame of the raw bytes run, if any were written
Framed(run) == IF run = << >> THEN << >> ELSE Deflate(run)

\* The stream the generator of a location stands for: its calls in order,
\* the raw bytes written between two Include or Bind calls as one frame, an
\* Include as the stream of the included location
RECURSIVE StreamOf(_, _)
StreamOf(ops, run) ==
    IF ops = << >> THEN Framed(run)
    ELSE IF Head(ops).kind = "write"
    THEN StreamOf(Tail(ops), Append(run, Head(ops).byte))
    ELSE Framed(run)
         \o (IF Head(ops).kind = "include"
             THEN StreamOf(Getter(Head(ops).loc), << >>)
             ELSE << >>)
         \o StreamOf(Tail(ops), << >>)

\* The location whose records are served from address r
LocOf(r) == CHOOSE l \in Locs : r \in Pool(l)

\* C10 (recursive equivalence): the byte stream of a record is the
\* concatenation, in generator call order and preorder over the include
\* tree, of the frames the generator wrote and of the streams of the records
\* it included; consecutive Writes form one frame, and an Include ends the
\* frame in progress before its reference component is appended.
C10_Stream ==
    /\ \A r \in RecIds :
           records[r].finished = 1 /\ records[r].populationError = NoError
               => WriteTo(records, r) = StreamOf(Getter(LocOf(r)), << >>)
    /\ \A t \in Tasks :
           tasks[t].result.rec # Nil /\ tasks[t].result.err = NoError
               => tasks[t].result.stream
                      = StreamOf(Getter(tasks[t].result.loc), << >>)

\* C10 witness: Frontend.Get has returned the record of a generator that
\* writes, includes a record and writes again
C10_Witness ==
    \E t \in Tasks :
        /\ tasks[t].result.rec # Nil
        /\ tasks[t].result.err = NoError
        /\ \E i \in DOMAIN Getter(tasks[t].result.loc) :
               Getter(tasks[t].result.loc)[i].kind = "include"
        /\ Len(records[tasks[t].result.rec].data) = 3
        /\ Len(tasks[t].result.stream) = 7

\* The records that are still referenced after the step, and whether record
\* r is in a bucket after the step
LiveAfter == Live(caches', records', tasks')
InBucketAfter(r) ==
    \E l \in Locs : caches'[l.cache].buckets[RLoc(l)].rec = r

\* The gate of r is open and r holds contents
Ready(r) == records[r].finished = 1 /\ records[r].populationError = NoError

\* C11, step: a Ready record that is in no bucket after the step (it was
\* evicted by the step or earlier) and is still held reads as before; a call
\* that is elected populator gets an instance no one holds.
C11_Step ==
    /\ \A r \in RecIds :
           Ready(r) /\ ~InBucketAfter(r) /\ r \in LiveAfter
               => /\ records'[r] = records[r]
                  /\ WriteTo(records', r) = WriteTo(records, r)
    /\ \A t \in Tasks :
           Enters(t) /\ Pushed(t).fresh
               => /\ Pushed(t).rec \notin Live(caches, records, tasks)
                  /\ records'[Pushed(t).rec] = SemInit(ZeroRecord)

\* C11, state: what a reader was handed is what its record instance holds,
\* in the cache or not, and the instance a parent references is Ready
C11_State ==
    /\ \A t \in Tasks :
           tasks[t].result.rec # Nil /\ tasks[t].result.err = NoError
               => /\ Ready(tasks[t].result.rec)
                  /\ tasks[t].result.stream
                         = WriteTo(records, tasks[t].result.rec)
    /\ \A r \in RecIds : \A ch \in RefsOf(records[r].data) : Ready(ch)

\* C11 (eviction leaves the record alone): evicting a Ready record only
\* removes its cache entry; a reader or a parent that holds the record still
\* reads the same components, and a later Get on the key creates a new,
\* distinct instance without modifying the old one.
C11_EvictedStaysReadable == [][C11_Step]_vars /\ []C11_State

\* C11 witness: a reader and a populated parent record hold a Ready
\* instance that was evicted
C11_Witness ==
    \E t \in Tasks, p \in RecIds :
        LET r == tasks[t].result.rec IN
        /\ r # Nil
        /\ Ready(r)
        /\ ~InBucket(r)
        /\ Ready(p)
        /\ r \in RefsOf(records[p].data)

\* C12 (immutable once open): once the gate of a record is open no step
\* writes its components, frame descriptor, hash, ETag or population error
\* (or its gate) again, for as long as the record is referenced.
C12_ImmutableOnceOpen ==
    [][\A r \in RecIds :
           records[r].finished = 1 /\ r \in LiveAfter
               => records'[r] = records[r]]_vars

\* C12 witness: a record with an open gate was evicted and its key was
\* populated again, while a reader holds the old instance
C12_Witness ==
    \E t \in Tasks :
        LET r == tasks[t].result.rec
            e == Cached(tasks[t].result.loc)
        IN /\ r # Nil
           /\ records[r].finished = 1
           /\ records[r].eTag # << >>
           /\ e # NoEntry
           /\ e.rec # r
           /\ records[e.rec].finished = 1
           /\ records[e.rec].eTag = records[r].eTag

\* The generator of location l produces a component when it returns nil: it
\* calls Write or Include
Producing(l) ==
    \E i \in DOMAIN Getter(l) : Getter(l)[i].kind \in {"write", "include"}

\* Task t is in Frontend.populate after its generator returned nil, and
\* takes a step
Populates(t) ==
    /\ Running(t)
    /\ Top(t).pc = "populate"
    /\ tasks'[t] # tasks[t]

\* Task t is in getGeneratedRecord after populate returned an error, and
\* takes a step
Fails(t) ==
    /\ Running(t)
    /\ Top(t).pc = "failed"
    /\ tasks'[t] # tasks[t]

\* C13, step: populate returns ErrEmptyRecord when the generator returned nil
\* and left no component; getGeneratedRecord then stores the error in the
\* record and evicts the record
C13_Step ==
    \A t \in Tasks :
        LET after == tasks'[t].stack[Len(tasks[t].stack)] IN
        /\ Populates(t) /\ ~Producing(Top(t).loc)
               => /\ after.pc = "failed"
                  /\ after.err = ErrEmptyRecord
                  /\ records'[Top(t).rec] = records[Top(t).rec]
        /\ Fails(t) /\ Top(t).err = ErrEmptyRecord
               => /\ after.pc = "unblock"
                  /\ records'[Top(t).rec].populationError = ErrEmptyRecord
                  /\ records'[Top(t).rec].finished = 0
                  /\ ~InBucketAfter(Top(t).rec)

\* C13, state: no record without components is handed out as populated; the
\* record of a generator that produces nothing is never Ready, and every
\* caller that was handed it was handed its error
C13_State ==
    /\ \A r \in RecIds : Ready(r) => records[r].data # << >>
    /\ \A r \in RecIds :
           records[r].finished = 1 /\ ~Producing(LocOf(r))
               => /\ records[r].populationError \in {ErrEmptyRecord, ErrSample}
                  /\ ~InBucket(r)
    /\ \A t \in Tasks :
           tasks[t].result.rec # Nil /\ ~Producing(tasks[t].result.loc)
               => /\ tasks[t].result.err
                         = records[tasks[t].result.rec].populationError
                  /\ tasks[t].result.stream = << >>

\* C13 (empty record): a generator that returns nil without having produced
\* a component makes Get fail with ErrEmptyRecord, handled like a generator
\* error: the record is evicted and every waiter on it receives
\* ErrEmptyRecord.
C13_EmptyRecord == [][C13_Step]_vars /\ []C13_State

\* C13 witness: the populator of a record whose generator only binds and a
\* waiter on the same instance both received ErrEmptyRecord
C13_Witness ==
    /\ tasks[1].result.rec # Nil
    /\ tasks[1].result.rec = tasks[2].result.rec
    /\ ~Producing(tasks[1].result.loc)
    /\ tasks[1].result.err = ErrEmptyRecord
    /\ tasks[2].result.err = ErrEmptyRecord

\* The call that called RecordWriter.bind, before and after the call on top
\* of it returns
Binder(t) == tasks[t].stack[Len(tasks[t].stack) - 1]
BinderAfter(t) == tasks'[t].stack[Len(tasks[t].stack) - 1]

\* C14, step: when getGeneratedRecord returns the error of a failed record
\* to bind, the generator returns that error: no reference is appended and
\* no step of the cache is taken; the parent is then torn down, the error
\* stored in it and its entry evicted before its gate opens
C14_Step ==
    \A t \in Tasks :
        /\ Returns(t) /\ Len(tasks[t].stack) > 1
               /\ records'[Top(t).rec].populationError # NoError
               => /\ BinderAfter(t).pc = "failed"
                  /\ BinderAfter(t).err = records'[Top(t).rec].populationError
                  /\ BinderAfter(t).rw = Binder(t).rw
                  /\ BinderAfter(t).child = Nil
                  /\ caches' = caches
        /\ Fails(t)
               => /\ records'[Top(t).rec].populationError = Top(t).err
                  /\ records'[Top(t).rec].finished = 0
                  /\ records'[Top(t).rec].data = << >>
                  /\ ~InBucketAfter(Top(t).rec)
                  /\ tasks'[t].stack[Len(tasks[t].stack)].pc = "unblock"

\* C14, state: a call registers and appends only a record that was returned
\* without error; every caller that was handed a failed parent was handed
\* the error stored in it, and a failed parent whose gate is open is in no
\* bucket
C14_State ==
    /\ \A x \in FrameIds :
           /\ FrameAt(x).pc = "register"
                  => FrameAt(x).child # Nil /\ Ready(FrameAt(x).child)
           /\ \A ch \in RefsOf(FrameAt(x).rw.data) : Ready(ch)
           /\ FrameAt(x).pc = "failed" => FrameAt(x).err # NoError
    /\ \A t \in Tasks :
           tasks[t].result.rec # Nil /\ tasks[t].result.err # NoError
               => /\ records[tasks[t].result.rec].populationError
                         = tasks[t].result.err
                  /\ records[tasks[t].result.rec].finished = 1
                  /\ ~InBucket(tasks[t].result.rec)

\* C14 (include error): when the population of an included or bound record
\* fails with E, Include / Bind returns E to the calling generator, appends
\* no reference and registers no dependency; the generator returns E and the
\* parent is torn down like any failed population: E stored, parent evicted,
\* gate opened, every waiter on the parent receives E.
C14_IncludeError == [][C14_Step]_vars /\ []C14_State

\* C14 witness: the populator of a parent whose bound record failed with
\* errSample and a waiter on the same parent instance both received errSample
C14_Witness ==
    /\ tasks[1].result.rec # Nil
    /\ tasks[1].result.rec = tasks[2].result.rec
    /\ tasks[1].result.loc # LocA
    /\ tasks[1].result.err = ErrSample
    /\ tasks[2].result.err = ErrSample

\* The scheduler takes a request from the channel in this step
Receives == evictAfter # << >> /\ evictAfter' = Tail(evictAfter)

\* C15, state: the pending deadline of a location is the earliest of the
\* deadlines (arrival time + delay) of the requests received for it since it
\* was last dispatched, and there is none when no request was received
C15_State ==
    \A l \in Locs :
        IF received[l] = {} THEN pending[l] = NoDeadline
        ELSE /\ pending[l] \in received[l]
             /\ \A d \in received[l] : pending[l] <= d

\* C15, step: a request whose deadline is earlier than the pending one
\* replaces it, a request whose deadline is later or equal leaves it
\* unchanged, and the entries of other locations stay
C15_Step ==
    Receives =>
        LET req == Head(evictAfter)
            deadline == now' + req.timer
        IN /\ pending'[req.loc] =
                  (IF pending[req.loc] = NoDeadline THEN deadline
                   ELSE IF deadline < pending[req.loc] THEN deadline
                   ELSE pending[req.loc])
           /\ \A l \in Locs \ {req.loc} : pending'[l] = pending[l]

\* C15 (one pending deadline): for each location the scheduler holds at most
\* one pending deadline, the earliest (arrival time + delay) among the
\* requests received for it since it was last dispatched: an earlier
\* deadline replaces the pending one, a later or equal one leaves it.
C15_EarliestDeadline == [][C15_Step]_vars /\ []C15_State

\* C15 witness: three requests with different deadlines were received for a
\* location, the last one at a later time, and the earliest deadline is
\* pending
C15_Witness ==
    \E l \in Locs :
        /\ Cardinality(received[l]) = 3
        /\ pending[l] = 1
        /\ now = MaxTime

C16_Step ==
    /\ \A l \in Locs :
           /\ pending[l] # NoDeadline /\ pending'[l] # NoDeadline
                  => pending'[l] <= pending[l]
           /\ pending[l] # NoDeadline /\ pending'[l] = NoDeadline
                  => /\ pending[l] < now
                     /\ l \in scanning
                     /\ caches'[l.cache].buckets[RLoc(l)] = NoEntry
    /\ scanning = {} /\ scanning' # {}
           => scanning' = {l \in Locs : /\ pending[l] # NoDeadline
                                        /\ pending[l] < now'}

\* C16 amended, state: the scan in progress dispatches entries that are due
C16_State ==
    /\ \A l \in scanning : pending[l] # NoDeadline /\ pending[l] < now
    /\ \A l \in Locs : pending[l] # NoDeadline => l \in Scheduled

\* C16 amended, progress: an entry whose deadline the clock has passed is
\* dispatched
C16_Progress ==
    \A l \in Scheduled :
        (pending[l] # NoDeadline /\ pending[l] < now)
            ~> (pending[l] = NoDeadline)

Quiescent == \A t \in Tasks : ~Running(t)

\* The limits of cache c hold at the clock reading time
WithinLimits(c, time) ==
    /\ c.memoryLimit # 0 => c.memoryUsed <= c.memoryLimit
    /\ c.lruLimit # 0 =>
           \A loc \in RLocs :
               has(c, loc) => ~(c.buckets[loc].lastUsed + c.lruLimit < time)

\* C17 (limits at rest): whenever no get or population is in progress,
\* memory_used <= memory_limit if memory_limit is non-zero and no record in
\* the cache has last_used + lru_limit < now if lru_limit is non-zero.
C17_LimitsAtRest ==
    Quiescent /\ fatal = NoFatal
        => \A id \in CacheIds : WithinLimits(caches[id], now)

\* The entries of cache c
Entries(c) == {loc \in RLocs : has(c, loc)}

\* C18, step: a call that was handed a fresh record leaves getRecord with
\* that record in the bucket of its key, stamped with the time of the call
C18_Step ==
    \A t \in Tasks :
        Enters(t) /\ Pushed(t).fresh =>
            LET l == Pushed(t).loc
                e == caches'[l.cache].buckets[RLoc(l)]
            IN /\ e.rec = Pushed(t).rec
               /\ e.lastUsed = now'
               /\ e.node \in Range(ListNodes(caches'[l.cache].lruList))

\* C18, state: whatever the cache holds, getRecord for a key that is not in
\* it, at any reading of the clock, returns with the record it inserted
\* still in the bucket of that key
C18_State ==
    \A l \in Locs, time \in Readings :
        LET c == caches[l.cache]
            new == NewRecord(l)
            g == getRecord(c, RLoc(l), new, time)
        IN ~has(c, RLoc(l)) /\ new # Nil =>
               /\ g.fresh
               /\ g.rec = new
               /\ g.cache.buckets[RLoc(l)].rec = new

Empty(c) ==
    /\ Entries(c) = {}
    /\ c.lruList.front = Nil
    /\ c.lruList.back = Nil
    /\ \A n \in NodeIds : c.lruList.nodes[n] = NoNode
    /\ c.memoryUsed = 0

\* The step is a call of Cache.EvictAll(0) on cache id that found records
EvictsAll(id) ==
    /\ caches'[id] # caches[id]
    /\ tasks' = tasks
    /\ CacheEvictAll(id)

\* C19, step: Cache.EvictAll(0) leaves the cache empty, and a population
\* that finishes for a record that is not in its bucket leaves memoryUsed
\* and the rest of the cache as they are
C19_Step ==
    /\ \A id \in CacheIds : EvictsAll(id) => Empty(caches'[id])
    /\ \A t \in Tasks :
           Populates(t) /\ Cached(Top(t).loc).rec # Top(t).rec
               => caches' = caches

\* C19 (evict all): when Cache.EvictAll(0) releases the lock every bucket of
\* the cache is empty, its LRU list is empty and memory_used is 0, whatever
\* populations are in flight; a population that finishes afterwards adds no
\* memory for its evicted record.
C19_EvictAll == [][C19_Step]_vars

\* C19 witness: a population finished for a record that had been evicted
\* with everything else in its cache, among it a populated record that
\* used memory; the cache is empty and memoryUsed is 0
C19_Witness ==
    \E t \in Tasks :
        /\ Running(t)
        /\ Top(t).fresh
        /\ Top(t).pc = "unblock"
        /\ records[Top(t).rec].data # << >>
        /\ ~InBucket(Top(t).rec)
        /\ Empty(caches[Top(t).loc.cache])
        /\ \E r \in RecIds \ {Top(t).rec} :
               /\ LocOf(r).cache = Top(t).loc.cache
               /\ records[r].finished = 1
               /\ MemoryOf(records[r].data) > 0
               /\ ~InBucket(r)

\* The step is a call of Frontend.Evict(0, k) for location l, whose key is
\* in the cache
Evicts(l) ==
    /\ tasks' = tasks
    /\ now' = now
    /\ has(caches[l.cache], RLoc(l))
    /\ caches' = [caches EXCEPT
                     ![l.cache] = evict(caches[l.cache], RLoc(l), 0).cache]

\* No record in a cache includes the record cached at l
NotIncluded(l) ==
    /\ Cached(l).includedIn = << >>
    /\ \A p \in Locs : ~Includes(p, l)

\* C20, state: the eviction of a key that is not in the cache changes
\* nothing: it leaves the cache as it is, starts no goroutine and sends no
\* request
C20_State ==
    \A l \in Locs :
        ~has(caches[l.cache], RLoc(l)) =>
            evict(caches[l.cache], RLoc(l), 0)
                = Evicted(caches[l.cache], {}, << >>)

\* C20, step: the eviction of a key whose record nothing includes empties
\* its bucket entry, unlinks its node, subtracts its memory and leaves the
\* other entries, the order of the other nodes, the limits and the other
\* caches
C20_Step ==
    \A l \in Locs :
        Evicts(l) =>
            LET c == caches[l.cache]
                after == caches'[l.cache]
                e == c.buckets[RLoc(l)]
            IN NotIncluded(l) =>
                   /\ after.buckets = [c.buckets EXCEPT ![RLoc(l)] = NoEntry]
                   /\ after.memoryUsed = c.memoryUsed - e.memoryUsed
                   /\ ListNodes(after.lruList) =
                          Restrict(ListNodes(c.lruList), NodeIds \ {e.node})
                   /\ ListLocs(after) =
                          Restrict(ListLocs(c), RLocs \ {RLoc(l)})
                   /\ after.memoryLimit = c.memoryLimit
                   /\ after.lruLimit = c.lruLimit
                   /\ \A id \in CacheIds \ {l.cache} :
                          caches'[id] = caches[id]

\* C20 (evict by key): the immediate Evict of a key whose record no other
\* record includes removes exactly that bucket entry, with its LRU node and
\* its memory, and leaves every other record of the cache in place; the
\* Evict of a key that is not in the cache changes nothing.
C20_EvictByKey == [][C20_Step]_vars /\ []C20_State

\* C20 witness: in a cache without limits a populated record that used
\* memory has left its bucket while the populated record of another key of
\* the same cache, which does not include it, is still cached and accounts
\* for all the memory in use
C20_Witness ==
    \E l \in Locs, r \in RecIds :
        /\ caches[l.cache].memoryLimit = 0
        /\ caches[l.cache].lruLimit = 0
        /\ LocOf(r).cache = l.cache
        /\ LocOf(r) # l
        /\ Cached(LocOf(r)) = NoEntry
        /\ records[r].finished = 1
        /\ MemoryOf(records[r].data) > 0
        /\ Cached(l) # NoEntry
        /\ records[Cached(l).rec].finished = 1
        /\ r \notin RefsOf(records[Cached(l).rec].data)
        /\ Cached(l).memoryUsed > 0
        /\ caches[l.cache].memoryUsed = Cached(l).memoryUsed

\* The step is a call of Frontend.EvictAll(0) on a frontend of cache id that
\* found records
EvictsFrontend(id, frontend) ==
    /\ tasks' = tasks
    /\ now' = now
    /\ caches'[id] # caches[id]
    /\ caches' = [caches EXCEPT
                     ![id] = evictFrontendWithLock(caches[id], frontend, 0).cache]

\* The record cached at loc in cache c includes, directly or through the
\* records it includes, a record cached in frontend of c
IncludesFrontend(c, loc, frontend) ==
    \E k \in RLocs :
        /\ k.frontend = frontend
        /\ has(c, k)
        /\ c.buckets[k].rec \in
               Reachable(records, RefsOf(records[c.buckets[loc].rec].data))

\* C21, step: Frontend.EvictAll(0) leaves no entry in the bucket of the
\* frontend and leaves the entry of every record of another frontend that
\* includes no record of the evicted frontend
C21_Step ==
    \A id \in CacheIds, frontend \in {loc.frontend : loc \in RLocs} :
        EvictsFrontend(id, frontend) =>
            /\ \A loc \in RLocs :
                   loc.frontend = frontend => ~has(caches'[id], loc)
            /\ \A loc \in RLocs :
                   /\ loc.frontend # frontend
                   /\ has(caches[id], loc)
                   /\ ~IncludesFrontend(caches[id], loc, frontend)
                   => caches'[id].buckets[loc] = caches[id].buckets[loc]

\* C21 (evict all of a frontend): after Frontend.EvictAll(0) returns the
\* bucket of that frontend is empty, and every record of another frontend of
\* the same cache that does not transitively include a record of the evicted
\* frontend is still present.
C21_FrontendEvictAll == [][C21_Step]_vars

\* C21 witness: in a cache without limits the frontend of LocB holds nothing
\* while a populated record of LocB is still held by a reader, and the
\* populated record of LocA, in the other frontend of the cache, which
\* includes nothing, is still cached
C21_Witness ==
    /\ caches[LocB.cache].memoryLimit = 0
    /\ caches[LocB.cache].lruLimit = 0
    /\ \A loc \in RLocs :
           loc.frontend = LocB.frontend => ~has(caches[LocB.cache], loc)
    /\ \E r \in Pool(LocB) :
           records[r].finished = 1 /\ records[r].data # << >>
    /\ Cached(LocA) # NoEntry
    /\ records[Cached(LocA).rec].finished = 1
    /\ RefsOf(records[Cached(LocA).rec].data) = {}

\* The place in ks of the first key for which matcher fn returns an error,
\* past the end when it returns none
Stop(ks, fn) ==
    LET failing == {i \in DOMAIN ks : fn[ks[i].key].err # NoError}
    IN IF failing = {} THEN Len(ks) + 1
       ELSE CHOOSE i \in failing : \A j \in failing : i <= j

\* The keys of ks the matcher is asked about before the loop ends and answers
\* true for
Matched(ks, fn) ==
    {ks[i] : i \in {j \in DOMAIN ks : j < Stop(ks, fn) /\ fn[ks[j].key].evict}}

\* The record cached at loc in cache c includes, directly or through the
\* records it includes, a record cached at one of the keys locs of c
IncludesOneOf(c, loc, locs) ==
    \E k \in locs :
        c.buckets[k].rec \in
            Reachable(records, RefsOf(records[c.buckets[loc].rec].data))

\* The LRU list, the buckets and memoryUsed of cache c agree
Consistent(c) ==
    /\ ListConsistent(c)
    /\ c.memoryUsed = SumMemoryUsed(c, SeqOf(RLocs))
    /\ c.memoryUsed >= 0

\* What C22 says of evictByFunc on cache c for the keys ks with matcher fn
C22_Call(c, ks, fn, r) ==
    /\ r.err = (IF Stop(ks, fn) <= Len(ks)
                THEN fn[ks[Stop(ks, fn)].key].err ELSE NoError)
    /\ \A loc \in Matched(ks, fn) : ~has(r.cache, loc)
    /\ \A loc \in RLocs :
           /\ has(c, loc)
           /\ loc \notin Matched(ks, fn)
           /\ ~IncludesOneOf(c, loc, Matched(ks, fn))
           => r.cache.buckets[loc] = c.buckets[loc]
    /\ Consistent(r.cache)

\* C22, state: whatever the cache holds, whatever the order of the keys and
\* whatever the matcher answers, EvictByFunc evicts the keys the matcher
\* answers true for until its first error, returns that error, leaves the
\* other keys, and leaves the cache consistent; and the caches are consistent
C22_State ==
    /\ \A id \in CacheIds : Consistent(caches[id])
    /\ matcherErr \in {NoError, ErrSample}
    /\ \A id \in CacheIds, frontend \in Frontends, fn \in Matchers :
           \A ks \in Orders(KeysOf(caches[id], frontend)) :
               C22_Call(caches[id], ks, fn,
                        evictByFunc(caches[id], ks, 0, fn))

\* C22 (evict by function): EvictByFunc evicts exactly the keys of the
\* frontend for which the matcher returns true, with their cascades; when
\* the matcher returns an error for a key it stops there and returns that
\* error unchanged, keys visited earlier stay evicted, keys not yet visited
\* are untouched, and the consistency of the cache is kept.
C22_EvictByFunc == []C22_State

\* C22 witness: in a cache without limits EvictByFunc returned the error of
\* the matcher after the record of LocC, populated and still held by its
\* reader, was evicted, and the record of LocD, a key of the same frontend,
\* is still cached
C22_Witness ==
    /\ matcherErr = ErrSample
    /\ caches[LocC.cache].memoryLimit = 0
    /\ caches[LocC.cache].lruLimit = 0
    /\ Cached(LocC) = NoEntry
    /\ \E r \in Pool(LocC) :
           records[r].finished = 1 /\ records[r].data # << >>
    /\ Cached(LocD) # NoEntry

\* The descriptors of the components written so far have been folded
Folded == frames.pc = "write" /\ frames.count > 0

\* C23 (descriptor of a concatenation): appending the frame descriptor of B
\* to that of A yields the descriptor of A followed by B, with size
\* (|A| + |B|) mod 2^32 and checksum Adler-32 of A followed by B, for all
\* byte sequences A and B; hence the fold of the descriptors of the
\* components of a record is the descriptor of its whole stream.
C23_AppendIsConcat == Folded => frames.f = FrameOf(frames.folded)

\* The same for components that are appended with fewer than 2^32 bytes,
\* whatever the length of the first one; and the sums of runs shorter than
\* 2^32 bytes are the sums of their bytes
C23_ShortFrames ==
    /\ Folded /\ (\A i \in 2 .. Len(frames.folded) : frames.folded[i].wraps = 0)
           => frames.f = FrameOf(frames.folded)
    /\ (\A i \in DOMAIN frames.folded : frames.folded[i].wraps = 0)
           => Sum32(frames.folded) = Adler32(BytesOf(frames.folded))

\* The record whose generator writes the same frames as that of tree, one
\* by one and without includes
Flat(tree) == FlatTree(LeavesOf(tree))

\* A tree without the includes that change no hash: an included record of
\* one component stands for that component, and a record that is one
\* include stands for the included record
RECURSIVE Canon(_)
RECURSIVE CanonItems(_)
CanonItem(item) ==
    IF item.kind = "frame" THEN item
    ELSE IF Len(Canon(item.sub)) = 1 THEN Canon(item.sub)[1]
    ELSE Included(Canon(item.sub))
CanonItems(tree) ==
    IF tree = << >> THEN << >>
    ELSE << CanonItem(Head(tree)) >> \o CanonItems(Tail(tree))
Canon(tree) ==
    IF Len(CanonItems(tree)) = 1 /\ CanonItems(tree)[1].kind = "include"
    THEN CanonItems(tree)[1].sub
    ELSE CanonItems(tree)

\* C24 as stated (hash stability): two records with the same leaf frames in
\* the same order have the same aggregate hash and ETag, however the frames
\* are grouped into included sub-records.
C24_SameLeavesSameHash ==
    /\ HashTree(grouping.tree) = HashTree(Flat(grouping.tree))
    /\ ETagTree(grouping.tree) = ETagTree(Flat(grouping.tree))

\* C24 amended (hash of the components): the aggregate hash is that of the
\* only component, or the SHA-1 of the hashes of the components, an include
\* contributing the aggregate hash of the included record; so two records
\* with the same leaf frames in the same order have the same hash and ETag
\* when their groupings differ only by includes of a record of one component
\* or by a record being one include of another.
C24_HashOfComponents ==
    Canon(grouping.tree) = Flat(grouping.tree) =>
        /\ HashTree(grouping.tree) = HashTree(Flat(grouping.tree))
        /\ ETagTree(grouping.tree) = ETagTree(Flat(grouping.tree))

\* C24 witness: a record of three frames of which one is written by an
\* included record and the whole by a record that the record includes
C24_Witness ==
    /\ Len(LeavesOf(grouping.tree)) = MaxLeaves
    /\ Len(grouping.tree) = 1
    /\ grouping.tree[1].kind = "include"
    /\ \E i \in DOMAIN grouping.tree[1].sub :
           grouping.tree[1].sub[i].kind = "include"
    /\ Canon(grouping.tree) = Flat(grouping.tree)

\* ---------------------------------------------------------------------- C25
\* The call of WriteHTTP by goroutine t has returned without an error
Answered(t) ==
    /\ ~Running(t)
    /\ http[t].request # NoRequest
    /\ tasks[t].result.rec # Nil
    /\ tasks[t].result.err = NoError

\* The ETag of the representation the request of t asks for
Expected(t) ==
    IF \E i \in DOMAIN http[t].request.acceptEncoding :
           http[t].request.acceptEncoding[i] = "deflate"
    THEN ETag(records[tasks[t].result.rec].hash)
    ELSE << -3 >> \o records[tasks[t].result.rec].hash \o << -4, -3 >>

\* C25: WriteHTTP answers 304 without a body exactly when If-None-Match
\* equals the ETag served for the request (the compressed ETag when
\* Accept-Encoding contains deflate, the -uc ETag otherwise); in every other
\* case it sets the ETag header to that ETag and writes the body, also when
\* the call before answered 304.
C25_NotModified ==
    \A t \in Tasks :
        Answered(t) =>
            /\ http[t].response.err = NoError
            /\ http[t].response.status \in {200, 304}
            /\ http[t].response.status = 304
                   <=> http[t].request.ifNoneMatch = Expected(t)
            /\ http[t].response.status = 304 =>
                   /\ http[t].response.body = << >>
                   /\ http[t].response.eTag = NoHeader
            /\ http[t].response.status = 200 =>
                   /\ http[t].response.eTag = Expected(t)
                   /\ http[t].response.body # << >>
                   /\ http[t].response.body
                          \in {ZlibHeader(CompressionLevel)
                                   \o tasks[t].result.stream
                                   \o ZlibFooter(records[tasks[t].result.rec]
                                                    .frameDescriptor.checksum),
                               Inflate(tasks[t].result.stream)}

\* A request without If-None-Match gets the body after the request before it
\* was answered 304
C25_Witness ==
    \E t \in Tasks :
        /\ Answered(t)
        /\ http[t].before.status = 304
        /\ http[t].request.ifNoneMatch = NoHeader
        /\ http[t].response.status = 200
        /\ http[t].response.body # << >>

\* ---------------------------------------------------------------------- C26
\* Goroutine t takes the step that registers the dependency of the record it
\* populates on the location its generator has bound
Registers(t) ==
    /\ Running(t)
    /\ Top(t).pc = "register"
    /\ tasks'[t] # tasks[t]

\* C26: registering the dependency of a parent on a child location that is
\* present in its cache leaves the parent among the incoming edges of the
\* child's stored bucket entry.
C26_EdgeStored ==
    [][\A t \in Tasks :
           Registers(t) =>
               LET parent == Top(t).loc
                   child == Op(Top(t)).loc
                   stored == caches'[child.cache].buckets[RLoc(child)]
               IN has(caches[child.cache], RLoc(child)) =>
                      /\ stored # NoEntry
                      /\ parent \in Range(stored.includedIn)]_vars

\* ---------------------------------------------------------------------- C27
\* Goroutine t takes the step in which populate, its generator having
\* returned nil with components written, calls setUsedMemory
Charges(t) ==
    /\ Running(t)
    /\ Top(t).pc = "populate"
    /\ Running(t)'
    /\ Top(t)'.pc = "unblock"

\* The bytes the buffers of the components data hold
RECURSIVE BufferBytes(_)
BufferBytes(data) ==
    IF data = << >> THEN 0
    ELSE (IF Head(data).kind = "buffer" THEN Len(Head(data).data) ELSE 0)
         + BufferBytes(Tail(data))

\* C27: setUsedMemory(rec, loc, n) sets the entry's memoryUsed to n and adds n
\* to memoryUsed of the cache if and only if loc maps to the record rec
\* itself; if loc is absent or maps to another record, no state of the cache
\* changes.
C27_SetUsedMemory ==
    [][\A t \in Tasks :
           Charges(t) =>
               LET f == Top(t)
                   c == caches[f.loc.cache]
                   loc == RLoc(f.loc)
                   n == BufferBytes(records'[f.rec].data)
               IN IF has(c, loc) /\ c.buckets[loc].rec = f.rec
                  THEN caches' =
                           [caches EXCEPT
                               ![f.loc.cache].buckets[loc].memoryUsed = n,
                               ![f.loc.cache].memoryUsed = @ + n]
                  ELSE caches' = caches]_vars

\* C27 witness: two populators of one location have called setUsedMemory;
\* the record of one is the one in the bucket and is charged, the record of
\* the other was replaced and is not
C27_Witness ==
    \E x, y \in FrameIds :
        /\ FrameAt(x).loc = FrameAt(y).loc
        /\ FrameAt(x).fresh /\ FrameAt(y).fresh
        /\ FrameAt(x).pc = "unblock" /\ FrameAt(y).pc = "unblock"
        /\ FrameAt(x).err = NoError /\ FrameAt(y).err = NoError
        /\ Cached(FrameAt(x).loc) # NoEntry
        /\ Cached(FrameAt(x).loc).rec = FrameAt(x).rec
        /\ Cached(FrameAt(x).loc).rec # FrameAt(y).rec
        /\ Cached(FrameAt(x).loc).memoryUsed
               = BufferBytes(records[FrameAt(x).rec].data)
        /\ caches[FrameAt(x).loc.cache].memoryUsed
               = Cached(FrameAt(x).loc).memoryUsed
        /\ Cached(FrameAt(x).loc).memoryUsed > 0

\* ---------------------------------------------------------------------- C28
\* Cache c when getRecord(loc) at the time reading has stored the entry of
\* loc and is about to enter its eviction loop
BeforeLoop(c, loc, reading) ==
    LET found == lookup(c, loc, Nil)
    IN [c EXCEPT !.lruList = found.list,
                 !.buckets[loc] = [found.recWithMeta EXCEPT
                                      !.lastUsed = reading]]

\* A limit of c that is set is exceeded when the entry at loc is the tail:
\* by the memory used less the memory of the entries gone, or by the age of
\* the entry at loc
Exceeded(c, gone, loc, reading) ==
    \/ /\ c.memoryLimit # 0
       /\ c.memoryUsed - SumMemoryUsed(c, gone) > c.memoryLimit
    \/ /\ c.lruLimit # 0
       /\ c.buckets[loc].lastUsed + c.lruLimit < reading

\* What a call getRecord(loc) at the time reading on cache c evicts: nothing
\* if both limits are zero, else the k <= 2 last entries of the list, each
\* with a limit exceeded when it was the tail
C28_Call(c, loc, reading) ==
    LET before == BeforeLoop(c, loc, reading)
        after == getRecord(c, loc, Nil, reading).cache
        was == ListLocs(before)
        is == ListLocs(after)
        k == Len(was) - Len(is)
    IN /\ k \in 0 .. EvictionAttempts
       /\ is = SubSeq(was, 1, Len(was) - k)
       /\ \A other \in RLocs :
              has(after, other) <=> other \in Range(is)
       /\ (c.memoryLimit = 0 /\ c.lruLimit = 0) => k = 0
       /\ k >= 1 => Exceeded(before, << >>, was[Len(was)], reading)
       /\ k >= 2 => Exceeded(before, << was[Len(was)] >>,
                             was[Len(was) - 1], reading)

Ticks ==
    /\ scanning = {}
    /\ tasks' = tasks
    /\ caches' = caches
    /\ records' = records
    /\ spawned' = spawned
    /\ evictAfter' = evictAfter
    /\ pending' = pending

\* The deadline of l has come at the clock reading time: it is not later
\* than time (atDeadline), or it is earlier than time
Due(l, time, atDeadline) ==
    /\ pending[l] # NoDeadline
    /\ IF atDeadline THEN pending[l] <= time ELSE pending[l] < time

\* Scheduling an eviction leaves the caches as they are; an entry leaves
\* pending only when the scan in progress dispatches it, its deadline having
\* come, and its location is then evicted; a tick takes the entries whose
\* deadline has come and leaves the others in place
C29_Step(atDeadline) ==
    /\ Len(evictAfter') > Len(evictAfter) => caches' = caches
    /\ Receives => caches' = caches
    /\ \A l \in Locs :
           /\ pending[l] # NoDeadline /\ pending'[l] = NoDeadline
                  => /\ l \in scanning
                     /\ Due(l, now, atDeadline)
                     /\ caches'[l.cache].buckets[RLoc(l)] = NoEntry
           /\ l \in scanning /\ l \notin scanning'
                  => pending'[l] = NoDeadline
           /\ pending[l] # NoDeadline /\ l \notin scanning
                  /\ l \notin scanning'
                  => pending'[l] # NoDeadline
    /\ Ticks =>
           scanning' = {l \in Locs : Due(l, now', atDeadline)}

\* C29 as stated: a scheduled eviction leaves the record in the cache until
\* its pending deadline; the scheduler dispatches an entry only at a tick at
\* which deadline <= now, removes it from pending when it does, leaves the
\* entries not yet due in place, and every entry whose deadline is <= now at
\* a tick is dispatched at that tick.
C29_DueAtDeadline == [][C29_Step(TRUE)]_vars

\* C29 amended: the same with the deadline strictly before the time the tick
\* read: an entry whose deadline equals that time stays pending until a
\* later tick.
C29_DueAfterDeadline ==
    /\ [][C29_Step(FALSE)]_vars
    /\ [](\A l \in scanning : Due(l, now, FALSE))

\* C29 witness: the one request received for a location had the deadline
\* MaxTime; a tick has read the clock at MaxTime and the entry is still
\* pending, out of the scan, with its record in the cache
C29_Witness ==
    \E l \in Locs :
        /\ received[l] = {MaxTime}
        /\ pending[l] = MaxTime
        /\ now = MaxTime
        /\ gets = 1
        /\ evictAfter = << >>
        /\ scanning = {}
        /\ Cached(l) # NoEntry

\* ---------------------------------------------------------------------- C30
\* The pairs (p, ch) such that the record cached at p includes the record
\* cached at ch, and the pairs joined by at most two pairs of R
Direct == {pair \in Locs \X Locs : Includes(pair[1], pair[2])}
Joined(R) ==
    R \cup {pair \in Locs \X Locs :
                \E mid \in Locs : /\ << pair[1], mid >> \in R
                                  /\ << mid, pair[2] >> \in R}

\* The entry of location l leaves its cache in the step
Leaves(l) ==
    /\ caches' # caches
    /\ Cached(l) # NoEntry
    /\ caches'[l.cache].buckets[RLoc(l)] = NoEntry

\* C30: when an immediate eviction returns, the evicted record and all its
\* transitive includers of the same cache are absent, removed in the one
\* step under the held lock; the other caches are not touched by that step,
\* their includers being left to separately started evictions.
C30_CascadeUnderLock ==
    [][\A ch \in Locs :
           Leaves(ch) =>
               /\ \A direct \in {Direct} :
                  \A paths \in {Joined(direct)} :
                  \A includes \in {Joined(paths)} :
                  \A p \in Locs \ {ch} :
                      << p, ch >> \in includes =>
                          IF p.cache = ch.cache
                          THEN caches'[p.cache].buckets[RLoc(p)] = NoEntry
                          ELSE p \in spawned' \/ Cached(p) = NoEntry
               /\ \A id \in CacheIds \ {ch.cache} :
                      caches'[id] = caches[id]]_vars

\* ------------------------------------------------- the locks, step by step
\* The cache mutexes goroutine g holds
HeldBy(g) == {id \in CacheIds : locks.mu[id] = g}

\* The instruction goroutine g is at
At(g) == Head(locks.code[g])
Busy(g) == locks.code[g] # << >>

OnlyLocks ==
    UNCHANGED << caches, records, tasks, now, spawned, evictAfter, pending,
                 scanning, fatal, gets, matcherErr, frames, grouping, http,
                 getters, lru, cascaded, opens, received >>

Advance(g, fields) ==
    locks' = [fields EXCEPT !.code[g] = Tail(locks.code[g])]

\* A caller calls Frontend.Get and the like on location l
CallGet(g, l) ==
    /\ ~Busy(g)
    /\ \E code \in GeneratedCode(l) :
           locks' = [locks EXCEPT !.code[g] = code]
    /\ OnlyLocks

\* A caller calls Evict, EvictAll or EvictByFunc of a frontend or of a cache,
\* with a timer or without
CallEvict(g, id) ==
    /\ ~Busy(g)
    /\ \E code \in EvictNowCode(id) \cup EvictLaterCode(id) :
           locks' = [locks EXCEPT !.code[g] = code]
    /\ OnlyLocks

\* cacheMu.RLock(): no goroutine write-locks the registry after NewCache
DoRLock(g) ==
    /\ Busy(g) /\ At(g).op = "RLock"
    /\ Advance(g, [locks EXCEPT !.cacheMu = @ \cup {g}])
    /\ OnlyLocks

DoRUnlock(g) ==
    /\ Busy(g) /\ At(g).op = "RUnlock"
    /\ Advance(g, [locks EXCEPT !.cacheMu = @ \ {g}])
    /\ OnlyLocks

\* c.mu.Lock() returns when no goroutine holds the mutex, the caller included
DoLock(g) ==
    /\ Busy(g) /\ At(g).op = "Lock"
    /\ locks.mu[At(g).id] = Free
    /\ Advance(g, [locks EXCEPT !.mu[At(g).id] = g])
    /\ OnlyLocks

DoUnlock(g) ==
    /\ Busy(g) /\ At(g).op = "Unlock"
    /\ Advance(g, [locks EXCEPT !.mu[At(g).id] = Free])
    /\ OnlyLocks

\* evictAfter <- req returns when the buffer has room
DoSend(g) ==
    /\ Busy(g) /\ At(g).op = "Send"
    /\ Len(locks.queue) < MaxQueue
    /\ Advance(g, [locks EXCEPT !.queue = Append(@, At(g).id)])
    /\ OnlyLocks

\* for _, ch := range rec.includedIn: every includer is of this cache
SameCache(g) ==
    /\ Busy(g) /\ At(g).op = "Go"
    /\ Advance(g, locks)
    /\ OnlyLocks

\* for _, ch := range rec.includedIn: an includer is of another cache and
\* go evict(ch, 0) starts a goroutine, one at a time here
DoGo(g) ==
    /\ Busy(g) /\ At(g).op = "Go"
    /\ ~Busy(Evictor)
    /\ \E id \in CacheIds \ {At(g).id} : \E code \in GoEvictCode(id) :
           Advance(g, [locks EXCEPT !.code[Evictor] = code])
    /\ OnlyLocks

\* The generator's own code
DoGenerate(g) ==
    /\ Busy(g) /\ At(g).op = "Generate"
    /\ Advance(g, locks)
    /\ OnlyLocks

\* The scheduler's select: case req := <-evictAfter
SchedulerReceive ==
    /\ ~Busy(Scheduler)
    /\ locks.queue # << >>
    /\ locks' = [locks EXCEPT !.queue = Tail(@),
                              !.pending = @ \cup {Head(locks.queue)}]
    /\ OnlyLocks

\* The scheduler's select: case <-timer with a deadline of cache id passed:
\* delete(pending, loc); evict(loc, 0)
SchedulerEvict(id) ==
    /\ ~Busy(Scheduler)
    /\ id \in locks.pending
    /\ \E code \in GoEvictCode(id) :
           locks' = [locks EXCEPT !.code[Scheduler] = code,
                                  !.pending = @ \ {id}]
    /\ OnlyLocks

RunCode(g) ==
    \/ DoRLock(g)
    \/ DoRUnlock(g)
    \/ DoLock(g)
    \/ DoUnlock(g)
    \/ DoSend(g)
    \/ SameCache(g)
    \/ DoGo(g)
    \/ DoGenerate(g)

LockNext ==
    \/ \E g \in Callers : \E l \in Locs : CallGet(g, l)
    \/ \E g \in Callers : \E id \in CacheIds : CallEvict(g, id)
    \/ \E g \in Goroutines : RunCode(g)
    \/ SchedulerReceive
    \/ \E id \in CacheIds : SchedulerEvict(id)

\* The limits of the caches take no part in the locking
LockInit == Init /\ caches = [id \in CacheIds |-> NewCache(id, 0, 0)]

LockSpec == LockInit /\ [][LockNext]_vars

\* C31: no goroutine holds the mutexes of two caches at once, none runs a
\* generator while it holds a cache mutex, and none holds the read lock of the
\* cache registry while it holds a cache mutex
C31_LockDiscipline ==
    \A g \in Goroutines :
        /\ Cardinality(HeldBy(g)) <= 1
        /\ Busy(g) /\ At(g).op = "Generate" => HeldBy(g) = {}
        /\ g \in locks.cacheMu => HeldBy(g) = {}

\* A generator that has yet to lock both caches is running while another
\* goroutine holds a cache mutex and a third the registry
C31_Witness ==
    \E g \in Callers :
        /\ Busy(g) /\ At(g).op = "Generate"
        /\ \A id \in CacheIds :
               \E i \in DOMAIN locks.code[g] : locks.code[g][i] = Lock(id)
        /\ \E h \in Goroutines \ {g} : HeldBy(h) # {}
        /\ \E h \in Goroutines \ {g} : h \in locks.cacheMu

\* Goroutine g is sending on the full channel under the mutex of a cache while
\* the scheduler, the only receiver, is in evict(loc, 0) waiting for the same
\* mutex
Stuck(g) ==
    /\ Busy(g) /\ At(g).op = "Send"
    /\ Len(locks.queue) = MaxQueue
    /\ HeldBy(g) = {At(g).id}
    /\ Busy(Scheduler) /\ At(Scheduler) = Lock(At(g).id)

\* C35: a call that schedules evictions always returns: its send on the
\* channel, made under the cache mutex, is never blocked on the full channel
\* while the scheduler is blocked on that mutex
C35_SendReturns == \A g \in Callers : ~Stuck(g)

\* Once the sender and the scheduler wait for each other they do so forever
C35_StuckForever ==
    [][\A g \in Callers : Stuck(g) => Stuck(g)']_vars

\* ---------------------------------------------------------------------- C32
\* C32: when the generator of a record has bound a location, the registration
\* appends no reference component to the binder's stream, and from then on
\* evicting the bound record, if it is still cached, evicts the binder's
\* location or starts the goroutine that does
C32_BinderEvicted ==
    [][\A t \in Tasks :
           Registers(t) /\ Op(Top(t)).kind = "bind" =>
               LET f == Top(t)
                   parent == f.loc
                   child == Op(f).loc
                   after == tasks'[t].stack[Len(tasks[t].stack)]
                   e == evictWithLock(caches'[child.cache], RLoc(child), 0)
               IN /\ RefsOf(after.rw.data) = RefsOf(f.rw.data)
                  /\ has(caches[child.cache], RLoc(child)) =>
                         \/ parent \in e.spawned
                         \/ /\ parent.cache = child.cache
                            /\ has(caches[parent.cache], RLoc(parent))
                            /\ ~has(e.cache, RLoc(parent))]_vars

\* The part of C32 about the stream: the registration of a bound location
\* leaves the reference components of the binder as they were
C32_NoReference ==
    [][\A t \in Tasks :
           Registers(t) /\ Op(Top(t)).kind = "bind" =>
               RefsOf(tasks'[t].stack[Len(tasks[t].stack)].rw.data)
                   = RefsOf(Top(t).rw.data)]_vars

\* ------------------------------------------------------ cycles of includes
\* Generators with cycles: LocB includes LocA and then itself, LocC binds
\* LocD and LocD binds LocC
Cycles ==
    [l \in Locs |->
        IF l = LocA THEN << OpWrite(1) >>
        ELSE IF l = LocB
        THEN << OpWrite(3), OpInclude(LocA), OpInclude(LocB) >>
        ELSE IF l = LocC THEN << OpWrite(5), OpBind(LocD) >>
        ELSE << OpBind(LocC) >>]

CycleInit ==
    /\ \E m \in MemoryLimits, l \in LRULimits :
           /\ Together(m, l)
           /\ caches = [id \in CacheIds |-> NewCache(id, m, l)]
    /\ records = [r \in RecIds |-> ZeroRecord]
    /\ tasks = [t \in Tasks |-> IdleTask]
    /\ now = 0
    /\ spawned = {}
    /\ evictAfter = << >>
    /\ pending = [l \in Locs |-> NoDeadline]
    /\ scanning = {}
    /\ received = [l \in Locs |-> {}]
    /\ fatal = NoFatal
    /\ gets = 0
    /\ matcherErr = NoError
    /\ http = [t \in Tasks |-> NoExchange]
    /\ getters = Cycles
    /\ opens = [r \in RecIds |-> 0]
    /\ frames = NoFrames
    /\ grouping = NoGrouping
    /\ locks = NoLocks
    /\ lru = NoList
    /\ cascaded = NoCascade

CycleSpec == CycleInit /\ [][Next]_vars

\* The locations the generator of l includes or binds
Children(l) ==
    {Getter(l)[i].loc : i \in {j \in DOMAIN Getter(l) : Getter(l)[j].kind # "write"}}

\* The locations the generators of S include or bind, and S
Further(S) == S \cup UNION {Children(l) : l \in S}

\* Populating a needs b
Needs(a, b) == b \in Further(Further(Further(Children(a))))

\* Task t has a call in progress that populates record r
PopulatedBy(t, r) ==
    \E i \in DOMAIN tasks[t].stack :
        tasks[t].stack[i].rec = r /\ tasks[t].stack[i].fresh

\* Task t is in rec.semaphore.Wait() of a record it found in the cache
Waiting(t) ==
    /\ Running(t)
    /\ Top(t).pc = "wait"

\* Task t waits for a record that is populated by a call of t itself, or by
\* a task that waits for a record that t or that task populates
Deadlocked(t) ==
    /\ Waiting(t)
    /\ \E u \in Tasks :
           /\ PopulatedBy(u, Top(t).rec)
           /\ \/ u = t
              \/ /\ Waiting(u)
                 /\ \E v \in {t, u} : PopulatedBy(v, Top(u).rec)

\* C33: a task that waits on the readiness gate of a record whose populator
\* is a call of its own below the wait, or a task that waits in the same way
\* on a record of the cycle, waits forever, and so does every task that waits
\* on a record such a task populates: none of their calls returns
C33_CycleBlocks ==
    [][\A t \in Tasks :
           Deadlocked(t) => tasks'[t] = tasks[t]]_vars

\* Both tasks populate a record of the cycle LocC, LocD and wait for the
\* record of the other, or one waits for the record it populates itself and
\* the other waits for a record of the first
C33_Witness ==
    /\ \A t \in Tasks : Deadlocked(t)
    /\ \E t \in Tasks : ~PopulatedBy(t, Top(t).rec)

\* C33 as stated: a generator that has called Include or Bind on a location
\* whose population needs its own never gets the call back
C33_NeverReturns ==
    [][\A t \in Tasks : \A i \in DOMAIN tasks[t].stack :
           /\ tasks[t].stack[i].pc = "bind"
           /\ Needs(Op(tasks[t].stack[i]).loc, tasks[t].stack[i].loc)
           => /\ i \in DOMAIN tasks'[t].stack
              /\ tasks'[t].stack[i] = tasks[t].stack[i]]_vars

\* ------------------------------------------------------------ termination
\* A step of goroutine t inside a call of Get: the Go scheduler runs every
\* goroutine that can run
Continue(t) ==
    \/ Bind(t)
    \/ Populate(t)
    \/ Failed(t)
    \/ Unblock(t)
    \/ Wait(t)
    \/ Register(t)

\* Both limits of both caches are 1: the limits evict at every insertion
TightInit == Init /\ caches = [id \in CacheIds |-> NewCache(id, 1, 1)]

\* Continue(t) can take a step: Bind when getRecord finds the record or can
\* allocate one, Wait when the gate is open, Unblock when the populator's
\* own Wait returns after it, the others always
CanContinue(t) ==
    /\ fatal = NoFatal
    /\ Running(t)
    /\ Top(t).pc # "bind"
    /\ Top(t).pc = "wait" => SemWaitReturns(records[Top(t).rec])
    /\ Top(t).pc = "unblock" =>
           SemWaitReturns(SemUnblock(records[Top(t).rec]))
    /\ Top(t).pc = "generate" =>
           \/ has(caches[Op(Top(t)).loc.cache], RLoc(Op(Top(t)).loc))
           \/ NewRecord(Op(Top(t)).loc) # Nil

\* A step of Continue(t): the only steps that change the calls of a task
\* that is in a call
Continued(t) == Running(t) /\ tasks'[t] # tasks[t]

\* Weak fairness of Continue(t), with its enabling condition written out
FairSpec ==
    /\ TightInit /\ [][Next]_vars
    /\ \A t \in Tasks :
           []<>(~CanContinue(t)) \/ []<><<Continued(t)>>_vars

\* C34: with the generators of Recursion, whose includes form no cycle and
\* which all return, every call of Get, and with it every Include and Bind
\* it makes, returns, whatever the other goroutine gets and whatever is
\* evicted meanwhile by the limits, by the eviction calls and their cascades
C34_GetReturns == \A t \in Tasks : Running(t) ~> ~Running(t)

\* Both tasks got the same record, one of them having waited for it, and the
\* record had been evicted by the time they returned
C34_Witness ==
    \E t \in Tasks : \E u \in Tasks \ {t} :
        /\ ~Running(t) /\ ~Running(u)
        /\ tasks[t].result.rec # Nil
        /\ tasks[u].result.rec = tasks[t].result.rec
        /\ caches[tasks[t].result.loc.cache]
               .buckets[RLoc(tasks[t].result.loc)].rec # tasks[t].result.rec

\* No call ends the process, and a task in a call can take a step unless it
\* waits for a record that the other task populates and that task can take
\* a step
C34_NoDeadlock ==
    /\ fatal = NoFatal
    /\ \A t \in Tasks :
           Running(t) =>
               \/ CanContinue(t)
               \/ /\ Waiting(t)
                  /\ \E u \in Tasks \ {t} :
                         PopulatedBy(u, Top(t).rec) /\ CanContinue(u)

\* At the level of the locks: a goroutine that holds a cache mutex never
\* waits for a mutex or for the registry; the only operation that can block
\* under a mutex is the send of a scheduled eviction
C34_NoMutexCycle ==
    \A g \in Goroutines :
        Busy(g) /\ HeldBy(g) # {} => At(g).op \in {"Unlock", "Go", "Send"}

\* ---------------------------------------------------------------------- C36
\* C36: when the population of a record has failed and the location holds
\* another, newer record by then, the eviction the failing populator issues
\* leaves that record in the cache
C36_OwnInstanceOnly ==
    [][\A t \in Tasks :
           Running(t) /\ Top(t).pc = "failed" /\ tasks'[t] # tasks[t] =>
               LET f == Top(t)
                   before == caches[f.loc.cache].buckets[RLoc(f.loc)]
                   after == caches'[f.loc.cache].buckets[RLoc(f.loc)]
               IN before # NoEntry /\ before.rec # f.rec =>
                      after.rec = before.rec]_vars

\* ---------------------------------------------------------------------- C38
\* C38: a call of getRecord that finds the record in the cache (fresh =
\* false) leaves it in its bucket: the eviction loop does not evict the
\* record the call returns
C38_HitKeepsRecord ==
    [][\A t \in Tasks :
           Len(tasks'[t].stack) > Len(tasks[t].stack) =>
               LET f == tasks'[t].stack[Len(tasks'[t].stack)]
               IN ~f.fresh =>
                      caches'[f.loc.cache].buckets[RLoc(f.loc)].rec = f.rec]_vars

\* ---------------------------------------------------------------------- C37
\* The generator of p has an Include or a Bind of l before its operation ip
IncludesBefore(p, l, ip) ==
    \E j \in DOMAIN Getter(p) :
        j < ip /\ Getter(p)[j].kind # "write" /\ Getter(p)[j].loc = l

\* The record cached at p was built by including or binding location l: it
\* is populated and its generator includes l, or its populator is past the
\* Include of l
BuiltFrom(p, l) ==
    /\ Cached(p).rec # Nil
    /\ \/ /\ records[Cached(p).rec].finished = 1
          /\ records[Cached(p).rec].populationError = NoError
          /\ IncludesBefore(p, l, Len(Getter(p)) + 1)
       \/ \E t \in Tasks : \E i \in DOMAIN tasks[t].stack :
              /\ tasks[t].stack[i].rec = Cached(p).rec
              /\ tasks[t].stack[i].fresh
              /\ IncludesBefore(p, l, tasks[t].stack[i].ip)

MaxEdges == 2

\* Every location of cache 0 and one location of cache 1
Parents == {Inter(0, loc) : loc \in RLocs} \cup {LocC}
EdgeLists == UNION {[1 .. n -> Parents] : n \in 0 .. MaxEdges}

\* The orders in which the locations of a cache were last used
Fills ==
    {s \in UNION {[1 .. n -> RLocs] : n \in 1 .. Cardinality(RLocs)} :
        \A i, j \in DOMAIN s : i # j => s[i] # s[j]}

\* recWithMeta.memoryUsed, a different power of two for each location
Weight(loc) == 2 ^ (loc.frontend + 2 * loc.key)

\* c.lruList.Prepend(loc); c.buckets[loc.frontend][loc.key] = recWithMeta
RECURSIVE Fill(_, _, _)
Fill(c, order, edges) ==
    IF order = << >> THEN c
    ELSE
      LET loc == Head(order)
          made == Prepend(c.lruList, loc)
      IN Fill([c EXCEPT
                 !.lruList = made.list,
                 !.memoryUsed = @ + Weight(loc),
                 !.buckets[loc] =
                     [memoryUsed |-> Weight(loc), lastUsed |-> 0,
                      node |-> made.node, includedIn |-> edges[loc],
                      rec |-> Lowest(Pool(Inter(c.id, loc)))]],
              Tail(order), edges)

CascadeInit ==
    /\ \E order \in Fills : \E edges \in [Range(order) -> EdgeLists] :
           caches = [id \in CacheIds |->
                        IF id = 0 THEN Fill(NewCache(id, 0, 0), order, edges)
                        ELSE NewCache(id, 0, 0)]
    /\ records = [r \in RecIds |-> ZeroRecord]
    /\ tasks = [t \in Tasks |-> IdleTask]
    /\ now = 0
    /\ spawned = {}
    /\ evictAfter = << >>
    /\ pending = [l \in Locs |-> NoDeadline]
    /\ scanning = {}
    /\ received = [l \in Locs |-> {}]
    /\ fatal = NoFatal
    /\ gets = 0
    /\ matcherErr = NoError
    /\ http = [t \in Tasks |-> NoExchange]
    /\ getters = Recursion
    /\ opens = [r \in RecIds |-> 0]
    /\ frames = NoFrames
    /\ grouping = NoGrouping
    /\ locks = NoLocks
    /\ lru = NoList
    /\ cascaded = NoCascade

\* c.mu.Lock(); c.evictWithLock(loc, 0); c.mu.Unlock() on cache 0
CascadeEvict(loc) ==
    /\ has(caches[0], loc)
    /\ \E e \in {evictWithLock(caches[0], loc, 0)} :
           /\ caches' = [caches EXCEPT ![0] = e.cache]
           /\ spawned' = spawned \cup e.spawned
    /\ cascaded' = << [cache |-> caches[0], loc |-> loc] >>
    /\ UNCHANGED << records, tasks, now, evictAfter, pending, scanning,
                    fatal, gets, matcherErr, frames, grouping, http,
                    getters, locks, lru, opens, received >>

CascadeNext == \E loc \in RLocs : CascadeEvict(loc)

CascadeSpec == CascadeInit /\ [][CascadeNext]_vars

\* The locations of cache c an eviction of the locations in S reaches over
\* the edges that stay in the cache
Dependants(c, S) ==
    S \cup {RLoc(p) : p \in {q \in UNION {Range(c.buckets[loc].includedIn) :
                                             loc \in S} :
                                q.cache = c.id /\ has(c, RLoc(q))}}

Cascade(c, loc) == Dependants(c, Dependants(c, Dependants(c, {loc})))

\* The parents in other caches of the locations in S
Foreign(c, S) ==
    {q \in UNION {Range(c.buckets[loc].includedIn) : loc \in S} :
        q.cache # c.id}

\* C39 (immediate eviction terminates): evictWithLock(loc, 0) returns, also
\* when edges repeat, loop or point at locations without a record, and it
\* removes every record it reaches exactly once: the records reachable over
\* same-cache edges leave the buckets and the LRU list, memoryUsed falls by
\* the memoryUsed of each of them once, the other entries stay as they
\* were, and the parents in other caches are evicted by goroutines.
C39_EachOnce ==
    \A k \in DOMAIN cascaded :
        LET c == cascaded[k].cache
            d == caches[c.id]
            gone == Cascade(c, cascaded[k].loc)
        IN /\ \A loc \in RLocs :
                  d.buckets[loc] = IF loc \in gone THEN NoEntry
                                   ELSE c.buckets[loc]
           /\ d.memoryUsed =
                  c.memoryUsed - SumMemoryUsed(c, SeqOf(gone))
           /\ d.memoryUsed = SumMemoryUsed(d, SeqOf(RLocs \ gone))
           /\ Range(ListNodes(d.lruList)) =
                  {d.buckets[loc].node : loc \in KeysOf(d, 0) \cup KeysOf(d, 1)}
           /\ Len(ListNodes(d.lruList)) =
                  Cardinality(KeysOf(d, 0) \cup KeysOf(d, 1))
           /\ Foreign(c, gone) \subseteq spawned

\* An eviction that met an edge back to the evicted location, the same edge
\* twice and an edge out of the cache
C39_Witness ==
    \E k \in DOMAIN cascaded :
        LET c == cascaded[k].cache
            loc == cascaded[k].loc
            edges == c.buckets[loc].includedIn
        IN /\ Len(edges) = 2 /\ edges[1] = edges[2]
           /\ edges[1].cache = c.id /\ RLoc(edges[1]) # loc
           /\ has(c, RLoc(edges[1]))
           /\ Inter(c.id, loc) \in Range(c.buckets[RLoc(edges[1])].includedIn)
           /\ LocC \in Range(c.buckets[RLoc(edges[1])].includedIn)
           /\ ~has(caches[c.id], loc) /\ ~has(caches[c.id], RLoc(edges[1]))
           /\ LocC \in spawned

\* ------------------------------------------------- the linked list alone
\* A linkedList driven by any sequence of its operations; lru.order is the
\* history of the nodes in the list and of the locations they were
\* prepended with, the latest prepended or moved first.
Without(order, n) == SelectSeq(order, LAMBDA e : e.node # n)
Entry(order, n) == (CHOOSE i \in DOMAIN order : order[i].node = n)
InList == {lru.order[i].node : i \in DOMAIN lru.order}

\* n := ll.Prepend(loc)
ListPrepend(loc) ==
    /\ Len(lru.order) < Cardinality(NodeIds)
    /\ \E made \in {Prepend(lru.list, loc)} :
           lru' = [list |-> made.list,
                   order |-> << [node |-> made.node, loc |-> loc] >>
                                 \o lru.order]

\* ll.MoveToFront(n)
ListMoveToFront(n) ==
    /\ n \in InList
    /\ lru' = [list |-> MoveToFront(lru.list, n),
               order |-> << lru.order[Entry(lru.order, n)] >>
                             \o Without(lru.order, n)]

\* ll.Remove(n)
ListRemove(n) ==
    /\ n \in InList
    /\ lru' = [list |-> Remove(lru.list, n),
               order |-> Without(lru.order, n)]

ListNext ==
    /\ \/ \E loc \in RLocs : ListPrepend(loc)
       \/ \E n \in NodeIds : ListMoveToFront(n)
       \/ \E n \in NodeIds : ListRemove(n)
    /\ UNCHANGED << caches, records, tasks, now, spawned, evictAfter,
                    pending, scanning, fatal, gets, matcherErr, frames,
                    grouping, http, getters, locks, cascaded, opens,
                    received >>

ListInit == Init /\ caches = [id \in CacheIds |-> NewCache(id, 0, 0)]

ListSpec == ListInit /\ [][ListNext]_vars

\* C40 (the LRU list): after any sequence of Prepend, MoveToFront and Remove
\* on nodes of the list, front.previous and back.next are nil, next and
\* previous are inverse to each other, front and back are nil exactly when
\* the list is empty, the list holds exactly the nodes prepended and not
\* removed, the latest prepended or moved first, each with the location it
\* was prepended with, and Last() returns the location of the node least
\* recently prepended or moved, with ok false exactly for the empty list.
C40_WellFormed ==
    LET ll == lru.list
        order == lru.order
    IN /\ ListNodes(ll) = [i \in DOMAIN order |-> order[i].node]
       /\ (ll.front = Nil) <=> (order = << >>)
       /\ (ll.back = Nil) <=> (order = << >>)
       /\ ll.front # Nil => ll.nodes[ll.front].previous = Nil
       /\ ll.back # Nil => ll.nodes[ll.back].next = Nil
       /\ \A i \in DOMAIN order :
              LET nd == ll.nodes[order[i].node] IN
              /\ nd.location = order[i].loc
              /\ nd.next = IF i = Len(order) THEN Nil ELSE order[i + 1].node
              /\ nd.previous = IF i = 1 THEN Nil ELSE order[i - 1].node
              /\ nd.next # Nil => ll.nodes[nd.next].previous = order[i].node
              /\ nd.previous # Nil => ll.nodes[nd.previous].next = order[i].node
       /\ Last(ll).ok <=> (order # << >>)
       /\ order # << >> => Last(ll).loc = order[Len(order)].loc

\* Three nodes were prepended, the middle one removed and the oldest moved
\* to the front: Last() is the location of the node prepended last
C40_Witness ==
    /\ Len(lru.order) = 2
    /\ lru.order[1].node = 1 /\ lru.order[2].node = 3
    /\ lru.order[1].loc # lru.order[2].loc
    /\ Last(lru.list) = [loc |-> lru.order[2].loc, ok |-> TRUE]

====
